---- MODULE Spec2Model ----
(***************************************************************************)
(* proxybench: the concurrent proxy validation and benchmarking engine.    *)
(*                                                                         *)
(*   internal/checker  DetectProtocol, Check, CheckHTTP, CheckSOCKS5,      *)
(*                     CheckShadowsocks, CheckMany, tcpProbe               *)
(*   internal/bench    Run, RunMany, avg, percentile                       *)
(*                                                                         *)
(* Go strings are TLA+ strings; Go's 0-based indices and half-open slices  *)
(* are kept (Slice(s, lo, hi) is s[lo:hi]).  The network is the            *)
(* environment: every network call of a probe takes its answer (success    *)
(* or failure, and the time it took) from an Env record chosen             *)
(* nondeterministically for that probe.                                    *)
(***************************************************************************)
EXTENDS Integers, Sequences, FiniteSets, TLC

VARIABLES
    mode,       \* "check" (CheckMany), "bench" (RunMany), "none"
    addresses,  \* the addresses argument
    given,      \* the opts value the caller passed
    opts,       \* the callee's copy of opts (the callee may assign to it)
    mpc,        \* position of the orchestrator in CheckMany / RunMany
    semCap,     \* cap(sem)
    sem,        \* len(sem): tokens held in the admission gate
    doneCap,    \* cap(done)
    done,       \* len(done): completion signals not yet received
    results,    \* the results slice: [isNil, elems]
    spawned,    \* number of goroutines the first loop has started
    received,   \* number of signals the second loop has received
    pc,         \* pc[i]: position of the goroutine started for index i
    ret,        \* the slice handed back to the caller, NotReturned before
    hist,       \* history: per index, probe invocations, slot writes, value produced
    call        \* the last single-address call made on its own (Check), or Idle

vars == <<mode, addresses, given, opts, mpc, semCap, sem, doneCap, done, results,
          spawned, received, pc, ret, hist, call>>

dispatchVars == <<mode, addresses, given, opts, mpc, semCap, sem, doneCap, done,
                  results, spawned, received, pc, ret, hist>>

-----------------------------------------------------------------------------
(* Bounds of the model. *)

\* longest address list handed to CheckMany / RunMany
MaxN == 2
\* largest configured concurrency limit
MaxConcurrency == 2
\* largest duration a network call is measured to take (in clock units)
MaxLatency == 2
\* largest duration measured inside a batch (CheckMany / RunMany)
MaxBatchLatency == 1

\* the longest sorted list percentile is applied to on its own
MaxSorted == 26

\* the largest sample count a single Run is asked for
MaxSamples == 3

\* the most lines of a geo database file
MaxLines == 3

\* the most arguments on a command line
MaxArgs == 1

-----------------------------------------------------------------------------
(* strings and bytes *)

\* x := v; body -- body(x) with x bound to the value v
With(v, body(_)) == body(v)

Min(a, b) == IF a < b THEN a ELSE b

\* s[lo:hi]
Slice(s, lo, hi) == SubSeq(s, lo + 1, hi)

\* s[lo:]
SliceFrom(s, lo) == SubSeq(s, lo + 1, Len(s))

\* s[i] as a one-character string
At(s, i) == SubSeq(s, i + 1, i + 1)

HasPrefix(s, prefix) ==
    Len(s) >= Len(prefix) /\ SubSeq(s, 1, Len(prefix)) = prefix

\* strings.Index(s, sub): first 0-based position of sub in s, -1 if none
Index(s, sub) ==
    LET hits == {i \in 0..(Len(s) - Len(sub)) : Slice(s, i, i + Len(sub)) = sub}
    IN  IF hits = {} THEN -1 ELSE CHOOSE i \in hits : \A j \in hits : i <= j

\* strings.LastIndex(s, sub)
LastIndex(s, sub) ==
    LET hits == {i \in 0..(Len(s) - Len(sub)) : Slice(s, i, i + Len(sub)) = sub}
    IN  IF hits = {} THEN -1 ELSE CHOOSE i \in hits : \A j \in hits : i >= j

Contains(s, sub) == Index(s, sub) /= -1

Lowers == "abcdefghijklmnopqrstuvwxyz"
Uppers == "ABCDEFGHIJKLMNOPQRSTUVWXYZ"
Digits == "0123456789"

IsLetter(c) == Contains(Lowers, c) \/ Contains(Uppers, c)
IsDigit(c)  == Contains(Digits, c)

\* strings.ToLower on ASCII
RECURSIVE ToLower(_)
ToLower(s) ==
    IF s = "" THEN ""
    ELSE LET c == At(s, 0)
             k == Index(Uppers, c)
         IN  (IF k = -1 THEN c ELSE At(Lowers, k)) \o ToLower(SliceFrom(s, 1))

-----------------------------------------------------------------------------
(* net.SplitHostPort and net/url.Parse, as far as the probers depend on    *)
(* them: scheme, authority (userinfo, host, optional port), path.          *)

NoErr == ""

\* net.SplitHostPort(hostport) for names and IPv4 literals
SplitHostPort(hostport) ==
    LET i == LastIndex(hostport, ":")
    IN  IF i < 0
        THEN [err |-> "missing port in address", host |-> "", port |-> ""]
        ELSE IF HasPrefix(hostport, "[")
        THEN LET e == Index(hostport, "]")
             IN  IF e < 0
                 THEN [err |-> "missing ']' in address", host |-> "", port |-> ""]
                 ELSE IF e + 1 = Len(hostport)
                 THEN [err |-> "missing port in address", host |-> "", port |-> ""]
                 ELSE IF e + 1 /= i
                 THEN [err |-> (IF At(hostport, e + 1) = ":"
                                THEN "too many colons in address"
                                ELSE "missing port in address"),
                       host |-> "", port |-> ""]
                 ELSE [err |-> NoErr, host |-> Slice(hostport, 1, e),
                       port |-> SliceFrom(hostport, i + 1)]
        ELSE IF Contains(Slice(hostport, 0, i), ":")
        THEN [err |-> "too many colons in address", host |-> "", port |-> ""]
        ELSE [err |-> NoErr, host |-> Slice(hostport, 0, i),
              port |-> SliceFrom(hostport, i + 1)]

\* url.getScheme: <<scheme, rest, err>>
getScheme(rawURL) ==
    LET stop(i) == LET c == At(rawURL, i)
                   IN  IF IsLetter(c) THEN FALSE
                       ELSE IF IsDigit(c) \/ c = "+" \/ c = "-" \/ c = "."
                       THEN i = 0
                       ELSE TRUE
        stops == {i \in 0..(Len(rawURL) - 1) : stop(i)}
    IN  IF stops = {} THEN [scheme |-> "", rest |-> rawURL, err |-> NoErr]
        ELSE LET i == CHOOSE k \in stops : \A j \in stops : k <= j
             IN  IF At(rawURL, i) = ":"
                 THEN IF i = 0
                      THEN [scheme |-> "", rest |-> "", err |-> "missing protocol scheme"]
                      ELSE [scheme |-> Slice(rawURL, 0, i),
                            rest |-> SliceFrom(rawURL, i + 1), err |-> NoErr]
                 ELSE [scheme |-> "", rest |-> rawURL, err |-> NoErr]

\* url.validOptionalPort: "" or ":" followed by digits
validOptionalPort(port) ==
    \/ port = ""
    \/ /\ At(port, 0) = ":"
       /\ \A i \in 1..(Len(port) - 1) : IsDigit(At(port, i))

\* bytes url.shouldEscape rejects in a host (a percent escape is taken as
\* invalid; the backtick is outside the alphabet of the addresses enumerated)
HostForbidden == " \\^{|}#%/?@"

\* url.validUserinfo
UserinfoPunct == "-._:~!$&'()*+,;=%@"

validUserinfo(s) ==
    \A i \in 0..(Len(s) - 1) :
        LET c == At(s, i)
        IN  IsLetter(c) \/ IsDigit(c) \/ Contains(UserinfoPunct, c)

\* url.parseHost
parseHost(host) ==
    IF HasPrefix(host, "[")
    THEN LET i == LastIndex(host, "]")
         IN  IF i < 0 THEN [err |-> "missing ']' in host", host |-> ""]
             ELSE IF ~validOptionalPort(SliceFrom(host, i + 1))
             THEN [err |-> "invalid port after host", host |-> ""]
             ELSE [err |-> NoErr, host |-> host]
    ELSE LET i == LastIndex(host, ":")
         IN  IF i /= -1 /\ ~validOptionalPort(SliceFrom(host, i))
             THEN [err |-> "invalid port after host", host |-> ""]
             ELSE IF \E k \in 0..(Len(host) - 1) : Contains(HostForbidden, At(host, k))
             THEN [err |-> "invalid character in host name", host |-> ""]
             ELSE [err |-> NoErr, host |-> host]

NoUser == [set |-> FALSE, username |-> ""]

AuthorityError(e) == [err |-> e, user |-> NoUser, host |-> ""]

\* url.parseAuthority
parseAuthority(authority) ==
    With(LastIndex(authority, "@"), LAMBDA i :
    With(IF i < 0 THEN parseHost(authority)
         ELSE parseHost(SliceFrom(authority, i + 1)), LAMBDA h :
    IF h.err /= NoErr THEN AuthorityError(h.err)
    ELSE IF i < 0 THEN [err |-> NoErr, user |-> NoUser, host |-> h.host]
    ELSE With(Slice(authority, 0, i), LAMBDA userinfo :
         IF ~validUserinfo(userinfo) THEN AuthorityError("net/url: invalid userinfo")
         ELSE IF Contains(userinfo, "%") THEN AuthorityError("invalid URL escape")
         ELSE With(Index(userinfo, ":"), LAMBDA c :
              [err |-> NoErr,
               user |-> [set |-> TRUE,
                         username |-> IF c < 0 THEN userinfo
                                      ELSE Slice(userinfo, 0, c)],
               host |-> h.host]))))

URLError(e) == [err |-> e, Scheme |-> "", Opaque |-> "", User |-> NoUser,
                Host |-> "", Path |-> ""]

\* s[:i] when i is the position of a separator in s, s when there is none
CutAt(s, i) == IF i < 0 THEN s ELSE Slice(s, 0, i)

\* ishex
IsHex(c) == IsDigit(c) \/ Contains("abcdefABCDEF", c)

\* the error of unescape(frag, encodeFragment): a '%' that two hexadecimal
\* digits do not follow
BadEscape(frag) ==
    \E i \in 0..(Len(frag) - 1) :
       /\ At(frag, i) = "%"
       /\ \/ i + 2 >= Len(frag)
          \/ ~IsHex(At(frag, i + 1))
          \/ ~IsHex(At(frag, i + 2))

\* url.parse of the URL without its fragment (no control bytes, no percent
\* escapes before the fragment in the inputs enumerated)
parse(rawURL) ==
    With(getScheme(rawURL), LAMBDA s :
    IF s.err /= NoErr THEN URLError(s.err)
    ELSE
    With(ToLower(s.scheme), LAMBDA sch :
    With(CutAt(s.rest, Index(s.rest, "?")), LAMBDA rest :
    IF ~HasPrefix(rest, "/") /\ sch /= ""
    THEN [err |-> NoErr, Scheme |-> sch, Opaque |-> rest, User |-> NoUser,
          Host |-> "", Path |-> ""]
    ELSE IF ~HasPrefix(rest, "/") /\ Contains(CutAt(rest, Index(rest, "/")), ":")
    THEN URLError("first path segment in URL cannot contain colon")
    ELSE IF (sch /= "" \/ ~HasPrefix(rest, "///")) /\ HasPrefix(rest, "//")
    THEN With(SliceFrom(rest, 2), LAMBDA r2 :
         With(Index(r2, "/"), LAMBDA sl :
         With(parseAuthority(CutAt(r2, sl)), LAMBDA a :
         IF a.err /= NoErr THEN URLError(a.err)
         ELSE [err |-> NoErr, Scheme |-> sch, Opaque |-> "",
               User |-> a.user, Host |-> a.host,
               Path |-> IF sl < 0 THEN "" ELSE SliceFrom(r2, sl)])))
    ELSE [err |-> NoErr, Scheme |-> sch, Opaque |-> "", User |-> NoUser,
          Host |-> "", Path |-> rest])))

\* url.Parse: the fragment is cut off, the rest parsed, the fragment unescaped
URLParse(rawURL) ==
    With(Index(rawURL, "#"), LAMBDA h :
    With(parse(CutAt(rawURL, h)), LAMBDA u :
    IF u.err /= NoErr THEN u
    ELSE IF h >= 0 /\ BadEscape(SliceFrom(rawURL, h + 1))
    THEN URLError("invalid URL escape")
    ELSE u))

-----------------------------------------------------------------------------
(* internal/checker: results, options, the network environment *)

ProtocolHTTP        == "http"
ProtocolHTTPS       == "https"
ProtocolSOCKS5      == "socks5"
ProtocolShadowsocks == "ss"
ProtocolUnknown     == "unknown"

\* the zero value of checker.Result
ZeroResult == [Address |-> "", Protocol |-> "", Alive |-> FALSE,
               Latency |-> 0, Error |-> ""]

\* Result{Address: address, Protocol: proto}
NewResult(address, proto) ==
    [ZeroResult EXCEPT !.Address = address, !.Protocol = proto]

DefaultTestURL == "http://www.google.com"

\* error texts of the standard library
ErrRefused == "connect: connection refused"
ErrGet     == "Get: proxyconnect failed"

\* The answers to a GET sent through an HTTP proxy: a response, named by
\* its status, or a failure of the transport
HTTPResponses == {"200", "302", "502"}
HTTPAnswers   == HTTPResponses \cup {"dial", "tls", "timeout"}

\* one response and one failure, for the callers to which only the
\* completion of the GET matters
CoarseHTTPAnswers == {"200", "dial"}

IsResponse(answer) == answer \in HTTPResponses

\* what one read on the Shadowsocks connection can end in
ReadOutcomes == {"data", "eof", "reset", "timeout"}

\* The answers of the network to the calls of one probe, with latencies in 1..L:
\*   tcp / tcpLat    net.DialTimeout to the proxy and the time it took
\*   get / getLat    client.Get through the SOCKS5 dialer
\*   http / httpLat  the answer to client.Get through the HTTP proxy
\*   rw / rwLat      the read after the Shadowsocks payload, time spent on
\*                   write and read
Envs(L) == [tcp : BOOLEAN, tcpLat : 1..L, get : BOOLEAN, getLat : 1..L,
            http : CoarseHTTPAnswers, httpLat : 1..L,
            rw : ReadOutcomes, rwLat : 0..L]

\* the answers of the network to one CheckHTTP call
HTTPEnvs(L) == [http : HTTPAnswers, httpLat : 1..L]

\* entries of the log of network operations a probe performed
OpDial(target)     == [op |-> "dial", target |-> target, via |-> ""]
OpGet(target, via) == [op |-> "get", target |-> target, via |-> via]
OpWrite(target)    == [op |-> "write", target |-> target, via |-> ""]
OpRead(target)     == [op |-> "read", target |-> target, via |-> ""]

\* a prober's return value and the network operations it performed
Out(result, ops) == [res |-> result, ops |-> ops]

\* DetectProtocol matching the prefixes whatever their case
DetectProtocolFolded(address) ==
    With(ToLower(address), LAMBDA a :
    IF HasPrefix(a, "http://") THEN ProtocolHTTP
    ELSE IF HasPrefix(a, "https://") THEN ProtocolHTTPS
    ELSE IF HasPrefix(a, "socks5://") THEN ProtocolSOCKS5
    ELSE IF HasPrefix(a, "ss://") THEN ProtocolShadowsocks
    ELSE ProtocolUnknown)

DetectProtocol(address) ==
    IF Len(address) >= 7 /\ Slice(address, 0, 7) = "http://" THEN ProtocolHTTP
    ELSE IF Len(address) >= 8 /\ Slice(address, 0, 8) = "https://" THEN ProtocolHTTPS
    ELSE IF Len(address) >= 9 /\ Slice(address, 0, 9) = "socks5://" THEN ProtocolSOCKS5
    ELSE IF Len(address) >= 5 /\ Slice(address, 0, 5) = "ss://" THEN ProtocolShadowsocks
    ELSE ProtocolUnknown

StripScheme(address, proto) ==
    With(proto \o "://", LAMBDA prefix :
    IF Len(address) > Len(prefix) /\ Slice(address, 0, Len(prefix)) = prefix
    THEN SliceFrom(address, Len(prefix))
    ELSE address)

\* tcpProbe: <<latency, err>> of one dial to host
tcpProbe(host, env) ==
    IF ~env.tcp
    THEN [latency |-> 0, err |-> "tcp dial: " \o ErrRefused]
    ELSE [latency |-> env.tcpLat, err |-> NoErr]

testURLOf(o) == IF o.TestURL = "" THEN DefaultTestURL ELSE o.TestURL

\* client.Get following the redirect of a 302 with a second request
ClientGetFollowing(target, via, answer) ==
    [err |-> IF IsResponse(answer) THEN NoErr ELSE "Get: " \o answer,
     ops |-> IF answer = "302"
             THEN <<OpGet(target, via), OpGet("Location", via)>>
             ELSE <<OpGet(target, via)>>]

\* client.Get(target) of a client whose transport goes through the proxy
\* via and whose CheckRedirect returns http.ErrUseLastResponse: one request,
\* and any response, a redirect too, is returned with a nil error
ClientGet(target, via, answer) ==
    [err |-> IF IsResponse(answer) THEN NoErr ELSE "Get: " \o answer,
     ops |-> <<OpGet(target, via)>>]

\* CheckHTTP recording the time a failed request took
CheckHTTPTimed(address, o, env) ==
    With(NewResult(address,
                   IF DetectProtocol(address) = ProtocolHTTPS
                   THEN ProtocolHTTPS ELSE ProtocolHTTP), LAMBDA result :
    With(URLParse(address), LAMBDA proxyURL :
    IF proxyURL.err /= NoErr
    THEN Out([result EXCEPT !.Error = "invalid proxy URL: " \o proxyURL.err], <<>>)
    ELSE With(ClientGet(testURLOf(o), address, env.http), LAMBDA got :
         IF got.err /= NoErr
         THEN Out([result EXCEPT !.Error = got.err, !.Latency = env.httpLat],
                  got.ops)
         ELSE Out([result EXCEPT !.Alive = TRUE, !.Latency = env.httpLat],
                  got.ops))))

CheckHTTP(address, o, env) ==
    With(NewResult(address,
                   IF DetectProtocol(address) = ProtocolHTTPS
                   THEN ProtocolHTTPS ELSE ProtocolHTTP), LAMBDA result :
    With(URLParse(address), LAMBDA proxyURL :
    IF proxyURL.err /= NoErr
    THEN Out([result EXCEPT !.Error = "invalid proxy URL: " \o proxyURL.err], <<>>)
    ELSE With(ClientGet(testURLOf(o), address, env.http), LAMBDA got :
         IF got.err /= NoErr
         THEN Out([result EXCEPT !.Error = got.err], got.ops)
         ELSE Out([result EXCEPT !.Alive = TRUE, !.Latency = env.httpLat],
                  got.ops))))

\* proxy.FromURL(u, proxy.Direct): only the socks5 schemes are built in
ProxyFromURL(u) ==
    IF u.Scheme \in {"socks5", "socks5h"} THEN NoErr
    ELSE "proxy: unknown scheme: " \o u.Scheme

\* the phase-1 dial without the default port
ProbeHostAsGiven(host) == host

\* the host:port of the phase-1 dial: port 1080 when the URL names none
ProbeHost(host) ==
    IF SplitHostPort(host).err /= NoErr THEN host \o ":1080" ELSE host

\* a phase-2 failure that leaves the latency unset
ForwardFailureNoLatency(result, tcpLatency, err) ==
    [result EXCEPT !.Alive = FALSE, !.Error = "forward check: " \o err]

\* the result of a phase-2 failure: the proxy is reachable but won't forward
ForwardFailure(result, tcpLatency, err) ==
    [result EXCEPT !.Alive = FALSE, !.Latency = tcpLatency,
                   !.Error = "forward check: " \o err]

CheckSOCKS5(address, o, env) ==
    With(NewResult(address, ProtocolSOCKS5), LAMBDA result :
    With(URLParse(address), LAMBDA proxyURL :
    IF proxyURL.err /= NoErr
    THEN Out([result EXCEPT !.Error = "invalid socks5 URL: " \o proxyURL.err], <<>>)
    ELSE
    \* first: fast TCP probe to the proxy itself
    With(ProbeHost(proxyURL.Host), LAMBDA host :
    With(tcpProbe(host, env), LAMBDA probe :
    IF probe.err /= NoErr
    THEN Out([result EXCEPT !.Error = "tcp probe: " \o probe.err], <<OpDial(host)>>)
    ELSE
    \* second: route an HTTP request through the SOCKS5 proxy
    With(ProxyFromURL(proxyURL), LAMBDA dialerErr :
    IF dialerErr /= NoErr
    THEN Out([result EXCEPT !.Error = "socks5 dialer: " \o dialerErr], <<OpDial(host)>>)
    ELSE
    With(<<OpDial(host), OpGet(testURLOf(o), address)>>, LAMBDA ops :
    IF ~env.get
    THEN Out(ForwardFailure(result, probe.latency, ErrGet), ops)
    ELSE Out([result EXCEPT !.Alive = TRUE, !.Latency = env.getLat], ops)))))))

-----------------------------------------------------------------------------
(* encoding/base64: DecodeString of StdEncoding, RawStdEncoding and        *)
(* RawURLEncoding (non-strict: trailing bits are ignored).                 *)

StdAlphabet == "ABCDEFGHIJKLMNOPQRSTUVWXYZabcdefghijklmnopqrstuvwxyz0123456789+/"
URLAlphabet == "ABCDEFGHIJKLMNOPQRSTUVWXYZabcdefghijklmnopqrstuvwxyz0123456789-_"

\* ASCII 32..95 and 97..126
AsciiLo == " !\"#$%&'()*+,-./0123456789:;<=>?@ABCDEFGHIJKLMNOPQRSTUVWXYZ[\\]^_"
AsciiHi == "abcdefghijklmnopqrstuvwxyz{|}~"

\* a byte that is not printable ASCII, as it shows in string(decoded)
Unprintable == "\\"

\* string([]byte{b})
Chr(b) == IF b >= 32 /\ b <= 95 THEN At(AsciiLo, b - 32)
          ELSE IF b >= 97 /\ b <= 126 THEN At(AsciiHi, b - 97)
          ELSE Unprintable

\* the value of the i-th character of the quantum q, 0 past its end
B64Val(alphabet, q, i) == IF i < Len(q) THEN Index(alphabet, At(q, i)) ELSE 0

\* the first nbytes bytes of the 24 bits the characters of q stand for
B64Bytes(alphabet, q, nbytes) ==
    With(B64Val(alphabet, q, 0) * 262144 + B64Val(alphabet, q, 1) * 4096
         + B64Val(alphabet, q, 2) * 64 + B64Val(alphabet, q, 3), LAMBDA val :
    IF nbytes = 1 THEN Chr(val \div 65536)
    ELSE IF nbytes = 2 THEN Chr(val \div 65536) \o Chr((val \div 256) % 256)
    ELSE Chr(val \div 65536) \o Chr((val \div 256) % 256) \o Chr(val % 256))

B64Corrupt == [err |-> TRUE, out |-> ""]

\* the index of the first character of q outside the alphabet, Len(q) if none
FirstBad(alphabet, q) ==
    With({i \in 0..(Len(q) - 1) : ~Contains(alphabet, At(q, i))}, LAMBDA bad :
    IF bad = {} THEN Len(q) ELSE CHOOSE i \in bad : \A j \in bad : i <= j)

\* (*Encoding).DecodeString, one quantum of four characters at a time
RECURSIVE B64Decode(_, _, _)
B64Decode(alphabet, padded, s) ==
    IF s = "" THEN [err |-> FALSE, out |-> ""]
    ELSE
    With(Slice(s, 0, Min(4, Len(s))), LAMBDA q :
    With(FirstBad(alphabet, q), LAMBDA k :
    IF k = 4
    THEN With(B64Decode(alphabet, padded, SliceFrom(s, 4)), LAMBDA r :
         IF r.err THEN B64Corrupt
         ELSE [err |-> FALSE, out |-> B64Bytes(alphabet, q, 3) \o r.out])
    ELSE IF k = Len(q)
    THEN IF k = 1 \/ padded THEN B64Corrupt
         ELSE [err |-> FALSE, out |-> B64Bytes(alphabet, q, k - 1)]
    ELSE IF ~padded \/ At(q, k) /= "=" \/ k < 2 THEN B64Corrupt
    ELSE IF Len(s) /= 4 \/ (k = 2 /\ At(s, 3) /= "=") THEN B64Corrupt
    ELSE [err |-> FALSE, out |-> B64Bytes(alphabet, Slice(q, 0, k), k - 1)]))

\* the byte of a printable ASCII character
Ord(c) == IF Contains(AsciiLo, c) THEN 32 + Index(AsciiLo, c)
          ELSE 97 + Index(AsciiHi, c)

\* the 24 bits of the first three bytes of s, zero bits past its end
B64Group(s) ==
    Ord(At(s, 0)) * 65536
    + (IF Len(s) > 1 THEN Ord(At(s, 1)) * 256 ELSE 0)
    + (IF Len(s) > 2 THEN Ord(At(s, 2)) ELSE 0)

\* the characters of one group of n <= 3 bytes, with its padding
B64Quantum(alphabet, padded, val, n) ==
    At(alphabet, val \div 262144) \o At(alphabet, (val \div 4096) % 64)
    \o (IF n > 1 THEN At(alphabet, (val \div 64) % 64)
        ELSE IF padded THEN "=" ELSE "")
    \o (IF n > 2 THEN At(alphabet, val % 64)
        ELSE IF padded THEN "=" ELSE "")

\* (*Encoding).EncodeToString of printable ASCII
RECURSIVE B64Encode(_, _, _)
B64Encode(alphabet, padded, s) ==
    IF s = "" THEN ""
    ELSE B64Quantum(alphabet, padded, B64Group(s), Min(3, Len(s)))
         \o B64Encode(alphabet, padded, SliceFrom(s, Min(3, Len(s))))

-----------------------------------------------------------------------------
(* internal/checker/shadowsocks.go *)

ZeroConfig == [Host |-> "", Port |-> "", Method |-> "", Password |-> ""]

\* strings.TrimPrefix
TrimPrefix(s, prefix) ==
    IF HasPrefix(s, prefix) THEN SliceFrom(s, Len(prefix)) ELSE s

\* net.JoinHostPort
JoinHostPort(host, port) ==
    IF Contains(host, ":") \/ Contains(host, "%")
    THEN "[" \o host \o "]:" \o port
    ELSE host \o ":" \o port

ConfigError(e) == [err |-> e, cfg |-> ZeroConfig]

\* the tail both forms share: method:password, then host:port
ssFields(methodPass, hostPort, errNoColon, errHostPort) ==
    With(Index(methodPass, ":"), LAMBDA c :
    IF c < 0 THEN ConfigError(errNoColon)
    ELSE With(SplitHostPort(hostPort), LAMBDA hp :
         [err |-> IF hp.err /= NoErr THEN errHostPort \o hp.err ELSE NoErr,
          cfg |-> [Host |-> hp.host, Port |-> hp.port,
                   Method |-> Slice(methodPass, 0, c),
                   Password |-> SliceFrom(methodPass, c + 1)]]))

\* the first of two decodings that succeeded
FirstDecoded(d1, d2) ==
    IF ~d1.err THEN d1 ELSE d2

\* modern format: ss://BASE64(method:password)@host:port
ssModern(userInfo, host) ==
    With(FirstDecoded(B64Decode(URLAlphabet, FALSE, userInfo),
                      B64Decode(StdAlphabet, TRUE, userInfo)), LAMBDA d :
    IF d.err THEN ConfigError("base64 decode userinfo: illegal base64 data")
    ELSE ssFields(d.out, host, "invalid method:password in userinfo",
                  "host:port: "))

\* legacy format: ss://BASE64(method:password@host:port)
ssLegacy(rawURL) ==
    With(TrimPrefix(rawURL, "ss://"), LAMBDA t :
    With(CutAt(t, Index(t, "#")), LAMBDA fragment :
    With(FirstDecoded(B64Decode(StdAlphabet, TRUE, fragment),
                      B64Decode(StdAlphabet, FALSE, fragment)), LAMBDA d :
    IF d.err THEN ConfigError("base64 decode legacy: illegal base64 data")
    ELSE With(LastIndex(d.out, "@"), LAMBDA atIdx :
         IF atIdx = -1 THEN ConfigError("missing @ in legacy ss URI")
         ELSE ssFields(Slice(d.out, 0, atIdx), SliceFrom(d.out, atIdx + 1),
                       "invalid method:password", "host:port legacy: ")))))

ParseShadowsocksURL(rawURL) ==
    With(URLParse(rawURL), LAMBDA u :
    IF u.err /= NoErr THEN ConfigError("parse url: " \o u.err)
    ELSE IF u.User.set THEN ssModern(u.User.username, u.Host)
    ELSE ssLegacy(rawURL))

\* CheckShadowsocks dialling whatever the parser left in cfg after an error
CheckShadowsocksDialAnyway(address, o, env) ==
    With(NewResult(address, ProtocolShadowsocks), LAMBDA result :
    With(ParseShadowsocksURL(address), LAMBDA p :
    With(JoinHostPort(p.cfg.Host, p.cfg.Port), LAMBDA hostPort :
    IF ~env.tcp
    THEN Out([result EXCEPT !.Error = "tcp: " \o ErrRefused], <<OpDial(hostPort)>>)
    ELSE IF p.err /= NoErr
    THEN Out([result EXCEPT !.Error = "parse: " \o p.err], <<OpDial(hostPort)>>)
    ELSE Out([result EXCEPT !.Alive = TRUE, !.Latency = env.tcpLat + env.rwLat],
             <<OpDial(hostPort), OpWrite(hostPort), OpRead(hostPort)>>))))

\* CheckShadowsocks taking anything but data on the read for a dead server
CheckShadowsocksStrict(address, o, env) ==
    With(NewResult(address, ProtocolShadowsocks), LAMBDA result :
    With(ParseShadowsocksURL(address), LAMBDA p :
    IF p.err /= NoErr
    THEN Out([result EXCEPT !.Error = "parse: " \o p.err], <<>>)
    ELSE With(JoinHostPort(p.cfg.Host, p.cfg.Port), LAMBDA hostPort :
         IF ~env.tcp
         THEN Out([result EXCEPT !.Error = "tcp: " \o ErrRefused],
                  <<OpDial(hostPort)>>)
         ELSE IF env.rw /= "data"
         THEN Out([result EXCEPT !.Error = "read: " \o env.rw],
                  <<OpDial(hostPort), OpWrite(hostPort), OpRead(hostPort)>>)
         ELSE Out([result EXCEPT !.Alive = TRUE,
                                 !.Latency = env.tcpLat + env.rwLat],
                  <<OpDial(hostPort), OpWrite(hostPort), OpRead(hostPort)>>))))

CheckShadowsocks(address, o, env) ==
    With(NewResult(address, ProtocolShadowsocks), LAMBDA result :
    With(ParseShadowsocksURL(address), LAMBDA p :
    IF p.err /= NoErr
    THEN Out([result EXCEPT !.Error = "parse: " \o p.err], <<>>)
    ELSE With(JoinHostPort(p.cfg.Host, p.cfg.Port), LAMBDA hostPort :
         IF ~env.tcp
         THEN Out([result EXCEPT !.Error = "tcp: " \o ErrRefused],
                  <<OpDial(hostPort)>>)
         ELSE Out([result EXCEPT !.Alive = TRUE,
                                 !.Latency = env.tcpLat + env.rwLat],
                  <<OpDial(hostPort), OpWrite(hostPort), OpRead(hostPort)>>))))

-----------------------------------------------------------------------------
(* internal/checker/checker.go: Check *)

\* Result{..., Error: "protocol auto-detect failed"}
AutoDetectFailed(address) ==
    [Address |-> address, Protocol |-> ProtocolUnknown, Alive |-> FALSE,
     Latency |-> 0, Error |-> "protocol auto-detect failed"]

\* the HTTP fallback of a bare address whose SOCKS5 probe r1 was not alive
FallbackHTTP(address, o, env, r1) ==
    With(CheckHTTP("http://" \o address, o, env), LAMBDA r2 :
    IF r2.res.Alive THEN Out(r2.res, r1.ops \o r2.ops)
    ELSE Out(AutoDetectFailed(address), r1.ops \o r2.ops))

\* Check running the HTTP trial of a bare address whatever SOCKS5 reported
CheckBothTrials(address, o, env) ==
    With(DetectProtocol(address), LAMBDA proto :
    IF proto \in {ProtocolHTTP, ProtocolHTTPS} THEN CheckHTTP(address, o, env)
    ELSE IF proto = ProtocolSOCKS5 THEN CheckSOCKS5(address, o, env)
    ELSE IF proto = ProtocolShadowsocks THEN CheckShadowsocks(address, o, env)
    ELSE FallbackHTTP(address, o, env,
                      CheckSOCKS5("socks5://" \o address, o, env)))

Check(address, o, env) ==
    With(DetectProtocol(address), LAMBDA proto :
    IF proto \in {ProtocolHTTP, ProtocolHTTPS} THEN CheckHTTP(address, o, env)
    ELSE IF proto = ProtocolSOCKS5 THEN CheckSOCKS5(address, o, env)
    ELSE IF proto = ProtocolShadowsocks THEN CheckShadowsocks(address, o, env)
    ELSE \* treat bare host:port as SOCKS5 first, fall back to HTTP
    With(CheckSOCKS5("socks5://" \o address, o, env), LAMBDA r1 :
    IF r1.res.Alive THEN r1 ELSE FallbackHTTP(address, o, env, r1)))

-----------------------------------------------------------------------------
(* internal/bench: Stats, Run, avg, percentile *)

DefaultSamples == 5

\* a float64 that is a ratio of two small integers
Ratio(n, d) == [num |-> n, den |-> d]

\* the zero value of bench.Stats
ZeroStats == [Address |-> "", Samples |-> 0, Successful |-> 0, MinMS |-> 0,
              MaxMS |-> 0, AvgMS |-> 0, P50MS |-> 0, P95MS |-> 0,
              LossRate |-> Ratio(0, 1), SpeedBps |-> 0]

\* The answer to one client.Get of the sampling loop: a response after ms
\* milliseconds, or an error. The time a failed request took is not read
\* by Run; it is set to the longest.
SampleAnswers(L) ==
    {[ok |-> FALSE, ms |-> L]} \cup {[ok |-> TRUE, ms |-> m] : m \in 0..L}

\* no payload download is answered
NoDownload == [got |-> FALSE, copied |-> FALSE, bytes |-> 0, secs |-> 0]

\* The answer to the payload download, none being made without a payload
\* URL: whether client.Get returned a response, whether io.Copy read the
\* body to its end, the bytes it read and the seconds it took.
SpeedAnswers(payloadURL) ==
    IF payloadURL = "" THEN {NoDownload}
    ELSE {NoDownload,
          [got |-> TRUE, copied |-> TRUE, bytes |-> 3, secs |-> 2],
          [got |-> TRUE, copied |-> TRUE, bytes |-> 3, secs |-> 0],
          [got |-> TRUE, copied |-> FALSE, bytes |-> 3, secs |-> 2]}

\* the answers of the network to one Run of n samples
RunEnvs(n, L, payloadURL) ==
    [samples : [1..n -> SampleAnswers(L)], speed : SpeedAnswers(payloadURL)]

RECURSIVE SeqSum(_)
SeqSum(vals) == IF vals = <<>> THEN 0 ELSE Head(vals) + SeqSum(Tail(vals))

\* sum / int64(len(vals)), for a non-empty vals of non-negative numbers
avg(vals) == SeqSum(vals) \div Len(vals)

(* float64 arithmetic, as far as percentile uses it. A non-negative      *)
(* float64 is kept as the bits of its significand, most significant        *)
(* first and at most 53 of them, and the exponent of the last bit: the     *)
(* value is Nat(bits) * 2^exp. Every operation computes the exact result   *)
(* and rounds it to 53 bits, to nearest, ties to even.                     *)

SignificandBits == 53

FZero == [bits |-> <<>>, exp |-> 0]

\* n zeros, none for n <= 0
Zeros(n) == [i \in 1..(IF n > 0 THEN n ELSE 0) |-> 0]

RECURSIVE StripZeros(_)
StripZeros(bits) ==
    IF bits = <<>> \/ Head(bits) = 1 THEN bits ELSE StripZeros(Tail(bits))

\* the binary digits of n, none for 0
RECURSIVE BitsOf(_)
BitsOf(n) == IF n = 0 THEN <<>> ELSE BitsOf(n \div 2) \o <<n % 2>>

\* the number whose binary digits are bits, one half of them at a time
RECURSIVE NatOf(_)
NatOf(bits) ==
    IF Len(bits) = 0 THEN 0
    ELSE IF Len(bits) = 1 THEN bits[1]
    ELSE NatOf(SubSeq(bits, 1, Len(bits) \div 2))
            * 2 ^ (Len(bits) - Len(bits) \div 2)
         + NatOf(SubSeq(bits, Len(bits) \div 2 + 1, Len(bits)))

\* bits with digit k set and the digits after it cleared
Carried(bits, k) ==
    [i \in 1..Len(bits) |-> IF i < k THEN bits[i] ELSE IF i = k THEN 1 ELSE 0]

\* bits + 1: the last 0 becomes 1 and the ones after it 0
Increment(bits) ==
    IF \A i \in 1..Len(bits) : bits[i] = 1 THEN <<1>> \o Zeros(Len(bits))
    ELSE Carried(bits, CHOOSE k \in 1..Len(bits) :
                          bits[k] = 0 /\ \A j \in (k + 1)..Len(bits) : bits[j] = 1)

\* the significand kept and rounded up by one unit in the last place
RoundedUp(keep, exp) ==
    IF Len(Increment(keep)) > SignificandBits
    THEN [bits |-> SubSeq(Increment(keep), 1, Len(keep)), exp |-> exp + 1]
    ELSE [bits |-> Increment(keep), exp |-> exp]

\* round to nearest, ties to even: keep is the 53 bits kept, rest the bits
\* dropped, exp the exponent of the last bit kept
RoundNearestEven(keep, rest, exp) ==
    IF /\ Head(rest) = 1
       /\ \/ keep[Len(keep)] = 1
          \/ \E i \in 2..Len(rest) : rest[i] = 1
    THEN RoundedUp(keep, exp)
    ELSE [bits |-> keep, exp |-> exp]

\* the float64 nearest to Nat(bits) * 2^exp, bits having no leading zero
Normalised(bits, exp) ==
    IF Len(bits) <= SignificandBits THEN [bits |-> bits, exp |-> exp]
    ELSE RoundNearestEven(SubSeq(bits, 1, SignificandBits),
                          SubSeq(bits, SignificandBits + 1, Len(bits)),
                          exp + Len(bits) - SignificandBits)

FRound(bits, exp) == Normalised(StripZeros(bits), exp)

\* bits, with zeros in front up to n digits
Padded(bits, n) == IF Len(bits) >= n THEN bits ELSE Zeros(n - Len(bits)) \o bits

\* the digits worked out in one step of a division or a multiplication
LimbBits == 20

\* what is left of r after n binary digits of r / d, for 0 <= r < d < 2^10
RECURSIVE FracRem(_, _, _)
FracRem(r, d, n) ==
    IF n <= LimbBits THEN (r * 2 ^ n) % d
    ELSE FracRem((r * 2 ^ LimbBits) % d, d, n - LimbBits)

\* the first n binary digits of r / d after the point, LimbBits digits at
\* a time
RECURSIVE FracBits(_, _, _)
FracBits(r, d, n) ==
    IF n <= LimbBits THEN Padded(BitsOf((r * 2 ^ n) \div d), n)
    ELSE Padded(BitsOf((r * 2 ^ LimbBits) \div d), LimbBits)
            \o FracBits((r * 2 ^ LimbBits) % d, d, n - LimbBits)

\* the digits after the point that a division works out: sixty leave more
\* than 53 significant ones whenever the quotient is at least 1/128
QuotientDigits == 60

\* float64(p) / float64(d) for integers 0 <= p and 0 < d: the rounded
\* integer part, QuotientDigits digits after the point, and one more digit
\* that is 1 iff the division left a remainder
FDiv(p, d) ==
    IF p = 0 THEN FZero
    ELSE FRound(BitsOf(p \div d) \o FracBits(p % d, d, QuotientDigits)
                   \o <<IF FracRem(p % d, d, QuotientDigits) > 0
                        THEN 1 ELSE 0>>,
                -(QuotientDigits + 1))

\* the number of the last LimbBits digits of bits, times m, plus carry
LimbProduct(bits, m, carry) ==
    NatOf(SubSeq(bits, Len(bits) - LimbBits + 1, Len(bits))) * m + carry

\* the digits of Nat(bits) * m + carry for m < 2^10, LimbBits digits at a
\* time from the last
RECURSIVE MulBits(_, _, _)
MulBits(bits, m, carry) ==
    IF Len(bits) <= LimbBits THEN BitsOf(NatOf(bits) * m + carry)
    ELSE MulBits(SubSeq(bits, 1, Len(bits) - LimbBits), m,
                 LimbProduct(bits, m, carry) \div 2 ^ LimbBits)
            \o Padded(BitsOf(LimbProduct(bits, m, carry) % 2 ^ LimbBits),
                      LimbBits)

\* x * float64(m) for an integer m >= 0
FMul(x, m) ==
    IF m = 0 \/ x.bits = <<>> THEN FZero
    ELSE FRound(MulBits(x.bits, m, 0), x.exp)

\* bits with one added at the digit pos places above the last
AddAt(bits, pos) ==
    Increment(SubSeq(bits, 1, Len(bits) - pos))
       \o SubSeq(bits, Len(bits) - pos + 1, Len(bits))

\* the digits of x from the digit of 2^hi at least down to that of 2^lo
Aligned(x, lo, hi) ==
    Zeros(hi - (x.exp + Len(x.bits) - 1)) \o x.bits \o Zeros(x.exp - lo)

\* x + 2^k
FAddPow2(x, k) ==
    IF x.bits = <<>> THEN [bits |-> <<1>>, exp |-> k]
    ELSE FRound(AddAt(Aligned(x, Min(x.exp, k), k), k - Min(x.exp, k)),
                Min(x.exp, k))

\* int(x): the integer part
FTrunc(x) ==
    IF Len(x.bits) + x.exp <= 0 THEN 0
    ELSE IF x.exp >= 0 THEN NatOf(x.bits \o Zeros(x.exp))
    ELSE NatOf(SubSeq(x.bits, 1, Len(x.bits) + x.exp))

\* int(float64(p)/100.0*float64(len(sorted)-1) + 0.5)
Rank(p, n) == FTrunc(FAddPow2(FMul(FDiv(p, 100), n - 1), -1))

percentile(sorted, p) ==
    IF Len(sorted) = 0 THEN 0
    ELSE sorted[Min(Rank(p, Len(sorted)), Len(sorted) - 1) + 1]

\* SortAsc of a Run that forgets to sort: the latencies in sample order
SortNone(vals) == vals

\* sort.Slice(latencies, less): the ascending permutation
RECURSIVE SortAsc(_)
SortAsc(vals) ==
    IF vals = <<>> THEN <<>>
    ELSE LET m == CHOOSE i \in 1..Len(vals) : \A j \in 1..Len(vals) : vals[i] <= vals[j]
             others == [k \in 1..(Len(vals) - 1) |-> IF k < m THEN vals[k] ELSE vals[k + 1]]
         IN  <<vals[m]>> \o SortAsc(others)

\* buildClient: the error of url.Parse or of proxy.FromURL, if any
buildClient(address) ==
    With(URLParse(address), LAMBDA u :
    IF u.err /= NoErr THEN "parse proxy URL: " \o u.err
    ELSE IF u.Scheme = "socks5" /\ ProxyFromURL(u) /= NoErr
    THEN "socks5 dialer: " \o ProxyFromURL(u)
    ELSE NoErr)

\* measureSpeed: the error of io.Copy is dropped, the bytes it read count
measureSpeed(env) ==
    IF ~env.speed.got THEN 0
    ELSE IF env.speed.secs = 0 THEN 0
    ELSE env.speed.bytes \div env.speed.secs

\* collect of a loop that stops at the first failed request
RECURSIVE collectUntilError(_, _, _)
collectUntilError(samples, i, n) ==
    IF i > n \/ ~samples[i].ok THEN <<>>
    ELSE <<samples[i].ms>> \o collectUntilError(samples, i + 1, n)

\* the latencies the loop of Run appends, in sample order
RECURSIVE collect(_, _, _)
collect(samples, i, n) ==
    IF i > n THEN <<>>
    ELSE (IF samples[i].ok THEN <<samples[i].ms>> ELSE <<>>)
         \o collect(samples, i + 1, n)

\* the statistics of Run over the sorted, non-empty latencies
Summarise(stats, sorted, samples) ==
    [stats EXCEPT !.Successful = Len(sorted),
                  !.MinMS = sorted[1],
                  !.MaxMS = sorted[Len(sorted)],
                  !.AvgMS = avg(sorted),
                  !.P50MS = percentile(sorted, 50),
                  !.P95MS = percentile(sorted, 95),
                  !.LossRate = Ratio(samples - Len(sorted), samples)]

\* Run once the client is built: the sampling loop and what follows it
RunSamples(address, o, env, stats, samples) ==
    With(collect(env.samples, 1, samples), LAMBDA latencies :
    With([i \in 1..samples |-> OpGet(testURLOf(o), address)], LAMBDA gets :
    IF Len(latencies) = 0
    THEN Out([stats EXCEPT !.Successful = 0, !.LossRate = Ratio(1, 1)], gets)
    ELSE With(Summarise(stats, SortAsc(latencies), samples), LAMBDA full :
         IF o.PayloadURL /= ""
         THEN Out([full EXCEPT !.SpeedBps = measureSpeed(env)],
                  Append(gets, OpGet(o.PayloadURL, address)))
         ELSE Out(full, gets))))

Run(address, o, env) ==
    With([ZeroStats EXCEPT !.Address = address, !.Samples = o.Samples], LAMBDA stats :
    IF buildClient(address) /= NoErr THEN Out(stats, <<>>)
    ELSE RunSamples(address, o, env, stats,
                    IF o.Samples <= 0 THEN DefaultSamples ELSE o.Samples))

-----------------------------------------------------------------------------
(* CheckMany (checker.go) and RunMany (bench.go): the bounded fan-out.     *)
(* Both functions have the same body but for the default limit and the     *)
(* per-address call, so one set of actions models both; mode tells which.  *)

DefaultCheckConcurrency == 10
DefaultBenchConcurrency == 5

\* addresses a batch is drawn from
BatchAddrs == {"http://h:1", "ss://h x", "h:1"}

NotReturned == [returned |-> FALSE, isNil |-> TRUE, elems |-> <<>>]
NilSlice    == [isNil |-> TRUE, elems |-> <<>>]
Nothing     == [some |-> FALSE]
Idle        == [st |-> "idle"]

N == Len(addresses)

\* the zero value of the element type of results
ZeroOf(m) == IF m = "check" THEN ZeroResult ELSE ZeroStats

\* if opts.Concurrency <= 0 { opts.Concurrency = default }
DefaultConcurrency(m) ==
    IF m = "check" THEN DefaultCheckConcurrency ELSE DefaultBenchConcurrency

\* CoerceConcurrency that takes the limit as configured
CoerceConcurrencyAsGiven(c, m) == c

CoerceConcurrency(c, m) == IF c <= 0 THEN DefaultConcurrency(m) ELSE c

\* CanSend with the buffer one slot too large
CanSendOneMore(length, capacity) == length <= capacity

\* sem <- struct{}{} can proceed iff the buffer of sem has room
CanSend(length, capacity) == length < capacity

\* SlotOf as it is when the closure reads the loop variable of the spawning
\* loop instead of its own parameter
SlotOfShared(i) == Len(addresses)

\* the index the goroutine started for input index i writes to: idx
SlotOf(i) == i

\* the calls Check(address, opts) / Run(address, opts) of a goroutine and
\* the answers the network may give them
ProbeOutcomes(m, address, o) ==
    IF m = "check"
    THEN {Check(address, o, env) : env \in Envs(MaxBatchLatency)}
    ELSE {Run(address, o, env) :
            env \in RunEnvs(IF o.Samples <= 0 THEN DefaultSamples ELSE o.Samples,
                            MaxBatchLatency, o.PayloadURL)}

\* every value opts takes during a batch (Setup may replace the limit)
BatchOptions ==
    [Timeout : {10}, TestURL : {""}, PayloadURL : {""}, Samples : {1},
     Concurrency : ((-1)..MaxConcurrency)
                   \cup {DefaultCheckConcurrency, DefaultBenchConcurrency}]

\* ProbeOutcomes, tabulated over the calls a batch can make
ProbeTable ==
    UNION {{<<m, a, o, out>> : out \in ProbeOutcomes(m, a, o)} :
             m \in {"check", "bench"}, a \in BatchAddrs, o \in BatchOptions}

\* the outcomes the table holds for one call
Outcomes(m, a, o) ==
    {t[4] : t \in {u \in ProbeTable : u[1] = m /\ u[2] = a /\ u[3] = o}}

\* tasks between acquiring and releasing the admission gate
InFlight == {i \in 1..N : pc[i] \in {"probe", "release"}}

\* number of probes that have returned
Completed == Cardinality({j \in 1..N : hist[j].produced.some})

\* MakeResults that leaves the slice nil when there is nothing to check
MakeResultsLazy(n, m) ==
    IF n = 0 THEN [isNil |-> TRUE, elems |-> <<>>]
    ELSE [isNil |-> FALSE, elems |-> [i \in 1..n |-> IF m = "check" THEN ZeroResult ELSE ZeroStats]]

\* results := make([]T, n): a non-nil slice of n zero values
MakeResults(n, m) == [isNil |-> FALSE, elems |-> [i \in 1..n |-> ZeroOf(m)]]

\* AfterProbe of a goroutine that probes again when the address is dead
AfterProbeRetry(res) ==
    IF "Alive" \in DOMAIN res /\ ~res.Alive THEN "probe" ELSE "release"

\* the statement a goroutine runs after its probe has returned: <-sem
\* (whatever the result: no retry, no early exit)
AfterProbe(res) == "release"

\* CanReceive of an orchestrator that does not wait for the signals
CanReceiveEarly(length) == TRUE

\* <-done can proceed iff a signal is buffered
CanReceive(length) == length > 0

Init ==
    /\ mode \in {"check", "bench"}
    /\ addresses \in UNION {[1..n -> BatchAddrs] : n \in 0..MaxN}
    /\ given \in {o \in BatchOptions : o.Concurrency <= MaxConcurrency}
    /\ opts = given
    /\ mpc = "entry"
    /\ semCap = 0
    /\ sem = 0
    /\ doneCap = 0
    /\ done = 0
    /\ results = NilSlice
    /\ spawned = 0
    /\ received = 0
    /\ pc = [i \in 1..Len(addresses) |-> "unborn"]
    /\ ret = NotReturned
    /\ hist = [i \in 1..Len(addresses) |->
                 [probes |-> 0, writes |-> 0, seq |-> 0, produced |-> Nothing]]
    /\ call = Idle

\* the head of CheckMany / RunMany: coerce the limit, make sem, results, done
Setup ==
    /\ mpc = "entry"
    /\ opts' = [opts EXCEPT !.Concurrency = CoerceConcurrency(@, mode)]
    /\ semCap' = opts'.Concurrency
    /\ results' = MakeResults(N, mode)
    /\ doneCap' = N
    /\ mpc' = IF N = 0 THEN "loop2" ELSE "loop1"
    /\ UNCHANGED <<mode, addresses, given, sem, done, spawned, received, pc, ret, hist, call>>

\* one iteration of "for i, addr := range addresses { go func(...) }"
Spawn ==
    /\ mpc = "loop1"
    /\ spawned < N
    /\ pc' = [pc EXCEPT ![spawned + 1] = "acquire"]
    /\ spawned' = spawned + 1
    /\ mpc' = IF spawned + 1 = N THEN "loop2" ELSE "loop1"
    /\ UNCHANGED <<mode, addresses, given, opts, semCap, sem, doneCap, done, results,
                   received, ret, hist, call>>

\* sem <- struct{}{}
Acquire(i) ==
    /\ pc[i] = "acquire"
    /\ CanSend(sem, semCap)
    /\ sem' = sem + 1
    /\ pc' = [pc EXCEPT ![i] = "probe"]
    /\ UNCHANGED <<mode, addresses, given, opts, mpc, semCap, doneCap, done, results,
                   spawned, received, ret, hist, call>>

\* results[idx] = Check(address, opts)   /   results[idx] = Run(address, opts)
Probe(i) ==
    /\ pc[i] = "probe"
    /\ \E out \in Outcomes(mode, addresses[i], opts) :
          /\ results' = [results EXCEPT !.elems[SlotOf(i)] = out.res]
          /\ hist' = [j \in 1..N |->
                        [probes   |-> hist[j].probes + (IF j = i THEN 1 ELSE 0),
                         writes   |-> hist[j].writes + (IF j = SlotOf(i) THEN 1 ELSE 0),
                         seq      |-> IF j = i THEN Completed + 1 ELSE hist[j].seq,
                         produced |-> IF j = i THEN [some |-> TRUE, val |-> out.res]
                                      ELSE hist[j].produced]]
          /\ pc' = [pc EXCEPT ![i] = AfterProbe(out.res)]
    /\ UNCHANGED <<mode, addresses, given, opts, mpc, semCap, sem, doneCap, done,
                   spawned, received, ret, call>>

\* <-sem
Release(i) ==
    /\ pc[i] = "release"
    /\ sem > 0
    /\ sem' = sem - 1
    /\ pc' = [pc EXCEPT ![i] = "signal"]
    /\ UNCHANGED <<mode, addresses, given, opts, mpc, semCap, doneCap, done, results,
                   spawned, received, ret, hist, call>>

\* done <- struct{}{}
Signal(i) ==
    /\ pc[i] = "signal"
    /\ CanSend(done, doneCap)
    /\ done' = done + 1
    /\ pc' = [pc EXCEPT ![i] = "exit"]
    /\ UNCHANGED <<mode, addresses, given, opts, mpc, semCap, sem, doneCap, results,
                   spawned, received, ret, hist, call>>

\* one iteration of "for range addresses { <-done }"
Receive ==
    /\ mpc = "loop2"
    /\ received < N
    /\ CanReceive(done)
    /\ done' = done - 1
    /\ received' = received + 1
    /\ UNCHANGED <<mode, addresses, given, opts, mpc, semCap, sem, doneCap, results,
                   spawned, pc, ret, hist, call>>

\* return results
Return ==
    /\ mpc = "loop2"
    /\ received = N
    /\ ret' = [returned |-> TRUE, isNil |-> results.isNil, elems |-> results.elems]
    /\ mpc' = "returned"
    /\ UNCHANGED <<mode, addresses, given, opts, semCap, sem, doneCap, done, results,
                   spawned, received, pc, hist, call>>

Next ==
    \/ Setup
    \/ Spawn
    \/ \E i \in 1..N : Acquire(i)
    \/ \E i \in 1..N : Probe(i)
    \/ \E i \in 1..N : Release(i)
    \/ \E i \in 1..N : Signal(i)
    \/ Receive
    \/ Return

Spec == Init /\ [][Next]_vars

-----------------------------------------------------------------------------
(* A single Check call on its own: the address, the options and the        *)
(* answers of the network are drawn at the start, the action makes the     *)
(* call.                                                                   *)

\* addresses a single Check is called on
CheckAddrs == {"http://h:1", "https://h:1", "socks5://h:1", "socks5://h",
               "socks5://h x", "ss://YTpi@h:1", "ss://x", "h:1", "h", ""}

\* addresses CheckSOCKS5 is called on directly
Socks5Addrs == {"socks5://h:1", "socks5://h", "http://h:1"}

\* the calls made: the function and its address
Calls == {<<"Check", a>> : a \in CheckAddrs}
         \cup {<<"CheckSOCKS5", a>> : a \in Socks5Addrs}

InitCheck ==
    /\ mode = "none"
    /\ addresses = <<>>
    /\ opts = [Timeout |-> 10, TestURL |-> "", PayloadURL |-> "", Samples |-> 0,
               Concurrency |-> 0]
    /\ given = opts
    /\ mpc = "none"
    /\ semCap = 0
    /\ sem = 0
    /\ doneCap = 0
    /\ done = 0
    /\ results = NilSlice
    /\ spawned = 0
    /\ received = 0
    /\ pc = <<>>
    /\ ret = NotReturned
    /\ hist = <<>>
    /\ \E c \in Calls, t \in {"", "http://t"}, env \in Envs(MaxLatency) :
          call = [st |-> "called", fn |-> c[1], address |-> c[2],
                  opts |-> [Timeout |-> 10, TestURL |-> t, Concurrency |-> 0],
                  env |-> env]

\* result := Check(address, opts)
CallCheck ==
    /\ call.st = "called"
    /\ call' = [st |-> "returned", fn |-> call.fn, address |-> call.address,
                opts |-> call.opts, env |-> call.env,
                out |-> IF call.fn = "Check"
                        THEN Check(call.address, call.opts, call.env)
                        ELSE CheckSOCKS5(call.address, call.opts, call.env)]
    /\ UNCHANGED dispatchVars

NextCheck == CallCheck

SpecCheck == InitCheck /\ [][NextCheck]_vars

-----------------------------------------------------------------------------
(* A single CheckHTTP call on its own, with every answer the GET can get.  *)

\* no batch is under way: the variables of CheckMany / RunMany at rest
DispatchIdle ==
    /\ mode = "none"
    /\ addresses = <<>>
    /\ opts = [Timeout |-> 10, TestURL |-> "", PayloadURL |-> "", Samples |-> 0,
               Concurrency |-> 0]
    /\ given = opts
    /\ mpc = "none"
    /\ semCap = 0
    /\ sem = 0
    /\ doneCap = 0
    /\ done = 0
    /\ results = NilSlice
    /\ spawned = 0
    /\ received = 0
    /\ pc = <<>>
    /\ ret = NotReturned
    /\ hist = <<>>

\* addresses CheckHTTP is called on
HTTPAddrs == {"http://h:1", "https://h:1", "http://h", "http://u@h:1",
              "http://h x", "http://h:x", "1.2.3.4:8080"}

InitHTTP ==
    /\ DispatchIdle
    /\ \E a \in HTTPAddrs, t \in {"", "http://t"}, env \in HTTPEnvs(MaxLatency) :
          call = [st |-> "called", fn |-> "CheckHTTP", address |-> a,
                  opts |-> [Timeout |-> 10, TestURL |-> t, Concurrency |-> 0],
                  env |-> env]

\* result := CheckHTTP(address, opts)
CallHTTP ==
    /\ call.st = "called"
    /\ call.fn = "CheckHTTP"
    /\ call' = [st |-> "returned", fn |-> call.fn, address |-> call.address,
                opts |-> call.opts, env |-> call.env,
                out |-> CheckHTTP(call.address, call.opts, call.env)]
    /\ UNCHANGED dispatchVars

NextHTTP == CallHTTP

SpecHTTP == InitHTTP /\ [][NextHTTP]_vars

-----------------------------------------------------------------------------
(* A single Run call on its own: the address, the options and the answers  *)
(* of the network to every request are drawn at the start.                 *)

\* if opts.Samples <= 0 { opts.Samples = 5 }
CoerceSamples(samples) == IF samples <= 0 THEN DefaultSamples ELSE samples

\* addresses Run is called on
RunAddrs == {"http://h:1", "socks5://h:1", "1.2.3.4:8080"}

InitRun ==
    /\ DispatchIdle
    /\ \E a \in RunAddrs, n \in (-1)..MaxSamples, pu \in {"", "http://p"} :
          \E env \in RunEnvs(CoerceSamples(n), MaxLatency, pu) :
             call = [st |-> "called", fn |-> "Run", address |-> a,
                     opts |-> [Timeout |-> 15, TestURL |-> "", PayloadURL |-> pu,
                               Samples |-> n, Concurrency |-> 0],
                     env |-> env]

\* stats := Run(address, opts)
CallRun ==
    /\ call.st = "called"
    /\ call.fn = "Run"
    /\ call' = [st |-> "returned", fn |-> call.fn, address |-> call.address,
                opts |-> call.opts, env |-> call.env,
                out |-> Run(call.address, call.opts, call.env)]
    /\ UNCHANGED dispatchVars

NextRun == CallRun

SpecRun == InitRun /\ [][NextRun]_vars

-----------------------------------------------------------------------------
(* percentile on its own: a sorted list and a percentile are drawn at the  *)
(* start, the action applies the function.                                 *)

\* the ascending list step, 2*step, ..., n*step
Ramp(n, step) == [i \in 1..n |-> i * step]

InitPercentile ==
    /\ DispatchIdle
    /\ \E n \in 0..MaxSorted, step \in {1, 10}, p \in 0..100 :
          call = [st |-> "called", fn |-> "percentile",
                  sorted |-> Ramp(n, step), p |-> p]

\* v := percentile(sorted, p)
CallPercentile ==
    /\ call.st = "called"
    /\ call.fn = "percentile"
    /\ call' = [st |-> "returned", fn |-> call.fn, sorted |-> call.sorted,
                p |-> call.p, out |-> percentile(call.sorted, call.p)]
    /\ UNCHANGED dispatchVars

NextPercentile == CallPercentile

SpecPercentile == InitPercentile /\ [][NextPercentile]_vars

-----------------------------------------------------------------------------
(* Properties of CheckMany / RunMany (specification Spec) *)

\* the limit the caller configured, with the default of the function
ConfiguredLimit ==
    IF given.Concurrency > 0 THEN given.Concurrency
    ELSE IF mode = "check" THEN 10 ELSE 5

\* C1: the returned collection has exactly N slots and slot i holds the
\* value the task started for input i produced (one of the outcomes of the
\* call on addresses[i]), whatever the order the probes completed in; at no
\* time does a slot hold anything but its zero value or its own task's value.
C1_InputOrder ==
    /\ mpc \notin {"entry"} =>
          /\ Len(results.elems) = N
          /\ \A i \in 1..N :
                results.elems[i] = IF hist[i].produced.some
                                   THEN hist[i].produced.val
                                   ELSE ZeroOf(mode)
    /\ ret.returned =>
          /\ Len(ret.elems) = N
          /\ \A i \in 1..N :
                /\ hist[i].produced.some
                /\ ret.elems[i] = hist[i].produced.val
                /\ \E out \in Outcomes(mode, addresses[i], given) :
                      ret.elems[i] = out.res

\* C1 witness: a returned batch of two different addresses whose second
\* probe completed before the first
C1_Witness ==
    /\ ret.returned
    /\ N >= 2
    /\ addresses[1] /= addresses[2]
    /\ hist[2].seq < hist[1].seq
    /\ ret.elems[1] /= ret.elems[2]

C3_ExactlyOnce ==
    /\ \A i \in 1..N : hist[i].probes <= 1
    /\ ret.returned =>
          \A i \in 1..N :
             /\ hist[i].probes = 1
             /\ (mode = "check" /\ ~hist[i].produced.val.Alive) =>
                   /\ ~ret.elems[i].Alive
                   /\ ret.elems[i].Error /= ""
                   /\ ret.elems[i].Error = hist[i].produced.val.Error

\* C3 witness: a returned batch whose first probe completed first and
\* failed, and whose second probe ran all the same and found its proxy alive
C3_Witness ==
    /\ ret.returned
    /\ mode = "check"
    /\ N >= 2
    /\ hist[1].seq < hist[2].seq
    /\ ~ret.elems[1].Alive
    /\ ret.elems[2].Alive
    /\ hist[1].probes = 1 /\ hist[2].probes = 1

\* C4: a slot is written at most once and only by its own task; a task
\* that has passed its write has written; every signal sent comes from a
\* task that has written; on return every task has exited, every slot has
\* been written once and none holds the zero value
C4_WrittenBeforeReturn ==
    /\ \A i \in 1..N :
          /\ hist[i].writes <= 1
          /\ hist[i].writes = hist[i].probes
          /\ pc[i] \in {"release", "signal", "exit"} => hist[i].writes = 1
    /\ done + received = Cardinality({i \in 1..N : pc[i] = "exit"})
    /\ ret.returned =>
          \A i \in 1..N :
             /\ pc[i] = "exit"
             /\ hist[i].writes = 1
             /\ ret.elems[i] /= ZeroOf(mode)

\* C4 witness: a returned batch of MaxN addresses, all signals received
C4_Witness ==
    /\ ret.returned
    /\ N >= 2
    /\ received = N
    /\ \A i \in 1..N : hist[i].writes = 1

\* C5: with zero addresses no task is started and no probe made, and the
\* collection returned is empty and not nil
C5_EmptyInput ==
    N = 0 =>
       /\ spawned = 0
       /\ pc = <<>>
       /\ hist = <<>>
       /\ sem = 0 /\ done = 0
       /\ ret.returned => (~ret.isNil /\ ret.elems = <<>>)

\* C5 witness: the call with no address has returned
C5_Witness == N = 0 /\ ret.returned

\* the batch addresses that are Shadowsocks URIs that do not parse
BadSSAddrs ==
    {a \in BatchAddrs : /\ DetectProtocol(a) = ProtocolShadowsocks
                        /\ ParseShadowsocksURL(a).err /= NoErr}

\* the indices of the batch that hold such an address
BadSS == {i \in 1..N : addresses[i] \in BadSSAddrs}

\* every outcome a check of such an address can have, whatever the options
BadSSOutcomes ==
    {t[4] : t \in {u \in ProbeTable : u[1] = "check" /\ u[2] \in BadSSAddrs}}

\* C11: the check of a Shadowsocks URI that does not parse makes no network
\* operation and is dead with latency zero and an error that starts
\* "parse: "; in a batch that is the outcome at its index, and every other
\* index is still probed once and returned with its own outcome.
C11_ParseFailureTerminal ==
    mode = "check" =>
       /\ \A out \in BadSSOutcomes :
             /\ out.ops = <<>>
             /\ ~out.res.Alive
             /\ out.res.Latency = 0
             /\ HasPrefix(out.res.Error, "parse: ")
             /\ out.res.Protocol = ProtocolShadowsocks
       /\ \A i \in BadSS :
             /\ hist[i].produced.some =>
                   \E out \in BadSSOutcomes :
                      /\ out.res.Address = addresses[i]
                      /\ hist[i].produced.val = out.res
             /\ ret.returned =>
                   /\ ret.elems[i] = hist[i].produced.val
                   /\ \A j \in (1..N) \ {i} :
                         /\ hist[j].probes = 1
                         /\ ret.elems[j] = hist[j].produced.val
                         /\ \E out \in Outcomes(mode, addresses[j], given) :
                               ret.elems[j] = out.res

\* C11 witness: a returned batch whose first address is a Shadowsocks URI
\* that does not parse, probed first, and whose second address was found
\* alive after it
C11_Witness ==
    /\ ret.returned
    /\ mode = "check"
    /\ N >= 2
    /\ 1 \in BadSS
    /\ hist[1].seq < hist[2].seq
    /\ HasPrefix(ret.elems[1].Error, "parse: ")
    /\ ret.elems[2].Alive

-----------------------------------------------------------------------------
(* Properties of a single Check / CheckSOCKS5 call (specification          *)
(* SpecCheck)                                                              *)

Returned == call.st = "returned"

\* the call is Check on an address with no recognised scheme prefix
BareCheck ==
    call.fn = "Check" /\ DetectProtocol(call.address) = ProtocolUnknown

\* the call runs CheckSOCKS5 on the address as given
Socks5Call ==
    \/ call.fn = "CheckSOCKS5"
    \/ call.fn = "Check" /\ DetectProtocol(call.address) = ProtocolSOCKS5

\* the positions in the log of the operations of kind op made through via
OpsAt(op, via) ==
    {k \in 1..Len(call.out.ops) :
        call.out.ops[k].op = op /\ call.out.ops[k].via = via}

\* the forwarded GET of the SOCKS5 trial and the GET of the HTTP trial of
\* a bare address
Socks5Gets == OpsAt("get", "socks5://" \o call.address)
HTTPGets   == OpsAt("get", "http://" \o call.address)

\* C6: the outcome Check(a) returns has Address = a, for prefixed and bare
\* addresses alike
C6_AddressEchoed ==
    (Returned /\ call.fn = "Check") => call.out.res.Address = call.address

\* C7: for a bare address the SOCKS5 trial comes first and the HTTP trial
\* runs exactly when the SOCKS5 trial was made and did not report alive;
\* the first alive result is returned, and when neither is alive the
\* outcome is protocol unknown, dead, "protocol auto-detect failed". For a
\* prefixed address only the operations of that protocol's prober are made,
\* all through the address as given, and the outcome is that prober's.
C7_TrialOrder ==
    (Returned /\ call.fn = "Check") =>
       IF BareCheck
       THEN /\ Cardinality(HTTPGets) <= 1
            /\ call.out.ops /= <<>> =>
                  /\ call.out.ops[1].op = "dial"
                  /\ (HTTPGets /= {}) <=> ~(call.env.tcp /\ call.env.get)
            /\ \A h \in HTTPGets : h = Len(call.out.ops)
            /\ \A k \in Socks5Gets : \A h \in HTTPGets : k < h
            /\ (call.out.ops /= <<>> /\ call.env.tcp /\ call.env.get) =>
                  /\ call.out.res.Alive
                  /\ call.out.res.Protocol = ProtocolSOCKS5
                  /\ call.out.res.Latency = call.env.getLat
            /\ (HTTPGets /= {} /\ IsResponse(call.env.http)) =>
                  /\ call.out.res.Alive
                  /\ call.out.res.Protocol = ProtocolHTTP
                  /\ call.out.res.Latency = call.env.httpLat
            /\ ~call.out.res.Alive =>
                  /\ call.out.res.Protocol = ProtocolUnknown
                  /\ call.out.res.Error = "protocol auto-detect failed"
       ELSE /\ call.out.res.Protocol = DetectProtocol(call.address)
            /\ call.out.res.Error /= "protocol auto-detect failed"
            /\ \A k \in 1..Len(call.out.ops) :
                  /\ call.out.ops[k].via \in {"", call.address}
                  /\ call.out.ops[k].op = "get" =>
                        /\ call.out.ops[k].via = call.address
                        /\ call.out.res.Protocol /= ProtocolShadowsocks
                  /\ call.out.ops[k].op = "dial" =>
                        call.out.res.Protocol
                           \in {ProtocolSOCKS5, ProtocolShadowsocks}
                  /\ call.out.ops[k].op \in {"write", "read"} =>
                        call.out.res.Protocol = ProtocolShadowsocks
            /\ Cardinality(OpsAt("get", call.address)) <= 1

\* C7 witness: a bare address whose SOCKS5 trial connected but did not
\* forward and whose HTTP trial, run after it, found the proxy alive
C7_Witness ==
    /\ Returned
    /\ BareCheck
    /\ Len(call.out.ops) = 3
    /\ Socks5Gets = {2}
    /\ HTTPGets = {3}
    /\ call.out.res.Alive
    /\ call.out.res.Protocol = ProtocolHTTP

\* C8: a SOCKS5 probe whose forwarded GET was made and failed is dead,
\* carries the latency of the phase-1 connect and an error that starts
\* "forward check: " and not "tcp probe: "; one whose forwarded GET
\* succeeded is alive with the latency of the GET and no error
C8_ForwardFailure ==
    (Returned /\ Socks5Call /\ OpsAt("get", call.address) /= {}) =>
       /\ call.env.tcp
       /\ ~call.env.get =>
             /\ ~call.out.res.Alive
             /\ call.out.res.Latency = call.env.tcpLat
             /\ call.out.res.Latency > 0
             /\ HasPrefix(call.out.res.Error, "forward check: ")
             /\ ~HasPrefix(call.out.res.Error, "tcp probe: ")
       /\ call.env.get =>
             /\ call.out.res.Alive
             /\ call.out.res.Latency = call.env.getLat
             /\ call.out.res.Error = ""

\* C8 witness: a SOCKS5 probe that connected in one unit of time, failed to
\* forward after two, and reports the one
C8_Witness ==
    /\ Returned
    /\ Socks5Call
    /\ call.env.tcp /\ ~call.env.get
    /\ call.env.tcpLat = 1 /\ call.env.getLat = 2
    /\ OpsAt("get", call.address) /= {}
    /\ call.out.res.Latency = 1
    /\ ~call.out.res.Alive

\* the host:port phase 1 is expected to dial: the authority of the
\* address, with port 1080 when it names none
ExpectedDial ==
    With(SliceFrom(call.address, Index(call.address, "://") + 3), LAMBDA authority :
    IF Contains(authority, ":") THEN authority ELSE authority \o ":1080")

\* C9: a SOCKS5 probe of a well-formed address whose phase-1 connect fails
\* is dead with latency zero and the dial error, and the one operation made
\* is the dial of host:port (port 1080 when none is given): no GET
C9_DialFailure ==
    (Returned /\ Socks5Call /\ URLParse(call.address).err = NoErr
       /\ ~call.env.tcp) =>
       /\ ~call.out.res.Alive
       /\ call.out.res.Latency = 0
       /\ call.out.res.Error = "tcp probe: tcp dial: " \o ErrRefused
       /\ call.out.ops = <<OpDial(ExpectedDial)>>

\* C9 witness: the probe of an address without a port dialled port 1080,
\* was refused, and made no GET
C9_Witness ==
    /\ Returned
    /\ Socks5Call
    /\ call.address = "socks5://h"
    /\ ~call.env.tcp
    /\ call.out.ops = <<OpDial("h:1080")>>
    /\ ~call.out.res.Alive

\* C10: whenever a Check connected to the proxy in its SOCKS5 phase 1, saw
\* the forwarded GET fail and returns a dead outcome, that outcome carries
\* the phase-1 latency
C10_ForwardLatencyRetained ==
    (Returned /\ call.fn = "Check" /\ ~call.out.res.Alive
       /\ call.env.tcp /\ ~call.env.get
       /\ (OpsAt("get", call.address) \cup Socks5Gets) /= {}
       /\ DetectProtocol(call.address) \in {ProtocolSOCKS5, ProtocolUnknown}) =>
       call.out.res.Latency = call.env.tcpLat

\* the call runs CheckShadowsocks on a URI that parses
ParsedSSCall ==
    /\ call.fn = "Check"
    /\ DetectProtocol(call.address) = ProtocolShadowsocks
    /\ ParseShadowsocksURL(call.address).err = NoErr

\* the host:port of the Shadowsocks server the address names
SSHostPort ==
    JoinHostPort(ParseShadowsocksURL(call.address).cfg.Host,
                 ParseShadowsocksURL(call.address).cfg.Port)

\* C12: the check of a Shadowsocks URI that parses is alive exactly when
\* the TCP connect succeeded; after a connect the payload is written and
\* one read made, and whatever the read ends in (data, EOF, reset, deadline)
\* the outcome is alive without an error; a refused connect gives a dead
\* outcome whose error starts "tcp: " and nothing is written or read.
C12_AliveIffConnected ==
    (Returned /\ ParsedSSCall) =>
       /\ call.out.res.Alive <=> call.env.tcp
       /\ call.env.tcp =>
             /\ call.out.res.Error = ""
             /\ call.out.ops = <<OpDial(SSHostPort), OpWrite(SSHostPort),
                                 OpRead(SSHostPort)>>
       /\ ~call.env.tcp =>
             /\ HasPrefix(call.out.res.Error, "tcp: ")
             /\ call.out.res.Latency = 0
             /\ call.out.ops = <<OpDial(SSHostPort)>>

\* C12 witness: the server accepted the connection and reset it on the
\* read, and the outcome is alive all the same
C12_Witness ==
    /\ Returned
    /\ ParsedSSCall
    /\ call.env.tcp
    /\ call.env.rw = "reset"
    /\ call.out.res.Alive
    /\ call.out.res.Error = ""

\* C13: the latency of an alive Shadowsocks outcome is the latency of the
\* TCP connect alone
C13_ConnectLatency ==
    (Returned /\ ParsedSSCall /\ call.out.res.Alive) =>
       call.out.res.Latency = call.env.tcpLat

-----------------------------------------------------------------------------
(* Properties of a single CheckHTTP call (specification SpecHTTP) *)

\* url.Parse accepts the address of the call
AddressParses == URLParse(call.address).err = NoErr

\* C14: CheckHTTP makes at most one request, and when the address parses
\* exactly one: the GET of the test URL through the proxy, never a second
\* one after a redirect. Any response (200, 302, 502) gives alive with the
\* latency measured and no error; the outcome is dead, with an error and
\* latency zero, exactly when the address does not parse or the transport
\* failed (dial, TLS, timeout).
C14_OneGetAnyStatus ==
    (Returned /\ call.fn = "CheckHTTP") =>
       /\ call.out.ops = IF AddressParses
                         THEN <<OpGet(testURLOf(call.opts), call.address)>>
                         ELSE <<>>
       /\ call.out.res.Alive <=> (AddressParses /\ IsResponse(call.env.http))
       /\ call.out.res.Alive =>
             /\ call.out.res.Latency = call.env.httpLat
             /\ call.out.res.Error = ""
       /\ ~call.out.res.Alive =>
             /\ call.out.res.Latency = 0
             /\ call.out.res.Error /= ""
       /\ call.out.res.Protocol =
             IF HasPrefix(call.address, "https://") THEN ProtocolHTTPS
             ELSE ProtocolHTTP

\* C14 witness: the proxy answered with a redirect; CheckHTTP made its one
\* request and reports alive
C14_Witness ==
    /\ Returned
    /\ call.fn = "CheckHTTP"
    /\ call.env.http = "302"
    /\ Len(call.out.ops) = 1
    /\ call.out.res.Alive
    /\ call.out.res.Latency = call.env.httpLat

-----------------------------------------------------------------------------
(* Properties of a single Run call (specification SpecRun) *)

RunReturned == call.st = "returned" /\ call.fn = "Run"

\* a loss rate, kept as the ratio the code divides, is 1.0 / is 0.0
IsOne(r)  == r.num = r.den
IsZero(r) == r.num = 0

\* C15: in every Stats Run returns, LossRate is 1.0 exactly when
\* Successful is 0
C15_LossOneIffNoSuccess ==
    RunReturned =>
       (IsOne(call.out.res.LossRate) <=> call.out.res.Successful = 0)

\* C16: in every Stats Run returns, LossRate is 0.0 exactly when
\* Successful equals the Samples field of the record
C16_LossZeroIffAllSucceeded ==
    RunReturned =>
       (IsZero(call.out.res.LossRate)
          <=> call.out.res.Successful = call.out.res.Samples)

\* C17: every Stats Run returns has 0 <= Successful <= Samples and
\* LossRate = (Samples - Successful) / Samples, within [0, 1], Samples being
\* the field of the record
C17_LossRateOfSamples ==
    RunReturned =>
       /\ 0 <= call.out.res.Successful
       /\ call.out.res.Successful <= call.out.res.Samples
       /\ call.out.res.Samples > 0
       /\ call.out.res.LossRate.num * call.out.res.Samples
             = (call.out.res.Samples - call.out.res.Successful)
                  * call.out.res.LossRate.den
       /\ 0 <= call.out.res.LossRate.num
       /\ call.out.res.LossRate.num <= call.out.res.LossRate.den

\* C18: a Stats with Successful > 0 has MinMS <= P50MS <= P95MS <= MaxMS
\* and MinMS <= AvgMS <= MaxMS; a Stats with Successful = 0 has all five
\* latency fields zero
C18_LatencyOrder ==
    RunReturned =>
       /\ call.out.res.Successful > 0 =>
             /\ call.out.res.MinMS <= call.out.res.P50MS
             /\ call.out.res.P50MS <= call.out.res.P95MS
             /\ call.out.res.P95MS <= call.out.res.MaxMS
             /\ call.out.res.MinMS <= call.out.res.AvgMS
             /\ call.out.res.AvgMS <= call.out.res.MaxMS
       /\ call.out.res.Successful = 0 =>
             /\ call.out.res.MinMS = 0
             /\ call.out.res.MaxMS = 0
             /\ call.out.res.AvgMS = 0
             /\ call.out.res.P50MS = 0
             /\ call.out.res.P95MS = 0

\* C18 witness: requests that all succeeded, the first slower than the
\* second, with minimum, median and 95th percentile all different
C18_Witness ==
    /\ RunReturned
    /\ call.out.res.Successful >= 3
    /\ call.env.samples[1].ok /\ call.env.samples[2].ok
    /\ call.env.samples[1].ms > call.env.samples[2].ms
    /\ call.out.res.MinMS < call.out.res.P50MS
    /\ call.out.res.P50MS < call.out.res.P95MS

\* the number of requests of the sampling loop, and those of them the
\* network answered / failed
SPrime   == CoerceSamples(call.opts.Samples)
Answered == {i \in 1..SPrime : call.env.samples[i].ok}
Failed   == {i \in 1..SPrime : ~call.env.samples[i].ok}

\* the requests Run made for the test URL through the address
SampleGets ==
    {k \in 1..Len(call.out.ops) :
        call.out.ops[k] = OpGet(testURLOf(call.opts), call.address)}

-----------------------------------------------------------------------------
(* Properties of percentile (specification SpecPercentile) *)

\* the rank of percentile p in a list of n values, rounding half up:
\* floor(p * (n - 1) / 100 + 1/2), at most n - 1
HalfUpRank(p, n) == Min(n - 1, (2 * p * (n - 1) + 100) \div 200)

\* C20: percentile of an empty list is 0, and of a sorted list of n > 0
\* values it is the value at the round-half-up rank of P, for every P in
\* 0..100; on 10, 20, ..., 100 that is 60 for P = 50, 100 for P = 95 and
\* 10 for P = 0
C20_RoundHalfUp ==
    (call.st = "returned" /\ call.fn = "percentile") =>
       /\ call.out = IF Len(call.sorted) = 0 THEN 0
                     ELSE call.sorted[HalfUpRank(call.p, Len(call.sorted)) + 1]
       /\ call.sorted = Ramp(10, 10) =>
             /\ call.p = 50 => call.out = 60
             /\ call.p = 95 => call.out = 100
             /\ call.p = 0 => call.out = 10

\* the download of the payload failed: client.Get returned an error, or
\* the body could not be read to its end
DownloadFailed(speed) == ~speed.got \/ ~speed.copied

\* C21: the throughput step changes SpeedBps and nothing else (Run with the
\* same sample answers and no payload URL returns the same record but for
\* SpeedBps), a failed payload download yields SpeedBps = 0, and no payload
\* request is made when the payload URL is empty
C21_ThroughputFrame ==
    RunReturned =>
       /\ [call.out.res EXCEPT !.SpeedBps = 0]
             = Run(call.address, [call.opts EXCEPT !.PayloadURL = ""],
                   [call.env EXCEPT !.speed = NoDownload]).res
       /\ (call.opts.PayloadURL /= "" /\ DownloadFailed(call.env.speed))
             => call.out.res.SpeedBps = 0
       /\ call.opts.PayloadURL = ""
             => /\ Len(call.out.ops) = Cardinality(SampleGets)
                /\ call.out.res.SpeedBps = 0

-----------------------------------------------------------------------------
(* ParseShadowsocksURL and DetectProtocol called on their own: on a        *)
(* Shadowsocks URI built from its four fields, on an input that is no      *)
(* Shadowsocks URI, on an address.                                         *)

\* what a Shadowsocks URI is built from: the form, whether the base64 text
\* is padded, the four fields and what follows the URI
SSBuilds ==
    [form : {"modern", "legacy"}, padded : BOOLEAN,
     Method : {"a", "rc4"}, Password : {"b", "", "??", "p:w", "p@w"},
     Host : {"h", "10.0.0.1"}, Port : {"1", "8388"},
     fragment : {"", "#tag", "#50%"}]

\* ss://<base64url(method:password)>@host:port and
\* ss://<base64(method:password@host:port)>, then the fragment
SSURI(b) ==
    "ss://"
    \o (IF b.form = "modern"
        THEN B64Encode(URLAlphabet, b.padded, b.Method \o ":" \o b.Password)
             \o "@" \o b.Host \o ":" \o b.Port
        ELSE B64Encode(StdAlphabet, b.padded,
                       b.Method \o ":" \o b.Password \o "@" \o b.Host
                       \o ":" \o b.Port))
    \o b.fragment

\* a call on an input that was not built
NoBuild == [form |-> "none"]

\* inputs that are no Shadowsocks URI: an empty body, malformed base64,
\* "ab" (no ':'), legacy "a:b" (no '@'), modern without a port, legacy
\* "a:b@h" (no port), and the encodings of a:b and a:b@h:1 under another
\* scheme or none
InvalidSS ==
    {"ss://", "ss://notbase64!!!@host:port", "http://1.2.3.4:8080",
     "ss://YWI@h:1", "ss://YTpi", "ss://YTpi@h", "ss://YTpiQGg=",
     "ss://!!!!@h:1", "ss://!!!!",
     "http://YTpi@h:1", "socks5://YTpi@h:1", "YTpiQGg6MQ==", ""}

\* addresses DetectProtocol is called on
DetectAddrs ==
    {"http://h:1", "https://h:1", "socks5://h:1", "ss://YTpi@h:1",
     "http://", "https://", "socks5://", "ss://",
     "HTTP://h:1", "Https://h:1", "SOCKS5://h:1", "SS://x", "sS://x",
     "http:/", "https:/h", "socks5:/", "ss:/", "s", "",
     "h:1", "1.2.3.4:8080", " http://h:1", "socks4://h:1", "socks://h:1",
     "httpx://h", "xhttp://h", "ss:///", "http//h"}

\* the calls made: the function, its argument and what it was built from
ParseCalls ==
    {[fn |-> "ParseShadowsocksURL", arg |-> SSURI(b), from |-> b] :
        b \in SSBuilds}
    \cup {[fn |-> "ParseShadowsocksURL", arg |-> r, from |-> NoBuild] :
            r \in InvalidSS}
    \cup {[fn |-> "DetectProtocol", arg |-> a, from |-> NoBuild] :
            a \in DetectAddrs}

InitParse ==
    /\ DispatchIdle
    /\ \E c \in ParseCalls :
          call = [st |-> "called", fn |-> c.fn, arg |-> c.arg, from |-> c.from]

\* cfg, err := ParseShadowsocksURL(rawURL)
CallParse ==
    /\ call.st = "called"
    /\ call.fn = "ParseShadowsocksURL"
    /\ call' = [st |-> "returned", fn |-> call.fn, arg |-> call.arg,
                from |-> call.from, out |-> ParseShadowsocksURL(call.arg)]
    /\ UNCHANGED dispatchVars

\* proto := DetectProtocol(address)
CallDetect ==
    /\ call.st = "called"
    /\ call.fn = "DetectProtocol"
    /\ call' = [st |-> "returned", fn |-> call.fn, arg |-> call.arg,
                from |-> call.from, out |-> DetectProtocol(call.arg)]
    /\ UNCHANGED dispatchVars

NextParse == CallParse \/ CallDetect

SpecParse == InitParse /\ [][NextParse]_vars

\* ParseShadowsocksURL has returned for a URI built in the given form
ParsedBuilt(form) ==
    /\ call.st = "returned"
    /\ call.fn = "ParseShadowsocksURL"
    /\ call.from.form = form

\* the configuration with the four fields the URI was built from
BuiltConfig ==
    [Host |-> call.from.Host, Port |-> call.from.Port,
     Method |-> call.from.Method, Password |-> call.from.Password]

\* C22: the modern URI built from a method, a password, a host and a port
\* parses to exactly these four fields with no error, for padded and for
\* unpadded base64url user-info
C22_ModernRoundTrip ==
    (ParsedBuilt("modern") /\ call.from.fragment = "")
       => call.out = [err |-> NoErr, cfg |-> BuiltConfig]

\* C23: the legacy URI built from a method, a password, a host and a port
\* parses to exactly these four fields with no error, for padded and for
\* unpadded standard base64 and for passwords containing ':' or '@', and
\* the parsed result is the same with a '#fragment' appended as without
C23_LegacyRoundTrip ==
    ParsedBuilt("legacy") =>
       /\ call.out = [err |-> NoErr, cfg |-> BuiltConfig]
       /\ call.out
             = ParseShadowsocksURL(SSURI([call.from EXCEPT !.fragment = ""]))

\* ParseShadowsocksURL has returned for an input that is no Shadowsocks URI
ParsedInvalid ==
    /\ call.st = "returned"
    /\ call.fn = "ParseShadowsocksURL"
    /\ call.from = NoBuild

\* C24: ParseShadowsocksURL returns an error for every input that is not a
\* Shadowsocks URI in the modern or the legacy form, an input under another
\* scheme than ss:// included
C24_InvalidRejected ==
    ParsedInvalid => call.out.err /= NoErr

\* DetectProtocol has returned
Detected == call.st = "returned" /\ call.fn = "DetectProtocol"

\* C25: DetectProtocol returns a tag for every string, the empty one and
\* those shorter than a prefix included: http, https, socks5 or ss exactly
\* when the string starts with http://, https://, socks5:// or ss:// in
\* this very case, unknown in every other case, and the same tag whenever
\* it is called on the same string
C25_DetectTotal ==
    Detected =>
       /\ call.out \in {"http", "https", "socks5", "ss", "unknown"}
       /\ call.out = "http" <=> HasPrefix(call.arg, "http://")
       /\ call.out = "https" <=> HasPrefix(call.arg, "https://")
       /\ call.out = "socks5" <=> HasPrefix(call.arg, "socks5://")
       /\ call.out = "ss" <=> HasPrefix(call.arg, "ss://")
       /\ call.out = DetectProtocol(call.arg)

\* C25 witness: a prefix in another case was classified as unknown
C25_Witness ==
    /\ Detected
    /\ call.arg = "HTTP://h:1"
    /\ call.out = "unknown"

-----------------------------------------------------------------------------
(* internal/geo: the IP-to-country database. Addresses are numbers below   *)
(* 2^31 (first octet below 128) in every input enumerated.                 *)

\* strings.TrimSpace, the white space being blanks
RECURSIVE TrimSpace(_)
TrimSpace(s) ==
    IF s = "" THEN ""
    ELSE IF At(s, 0) = " " THEN TrimSpace(SliceFrom(s, 1))
    ELSE IF At(s, Len(s) - 1) = " " THEN TrimSpace(Slice(s, 0, Len(s) - 1))
    ELSE s

\* strings.Split(s, sep) for a one-character sep
RECURSIVE Split(_, _)
Split(s, sep) ==
    IF Index(s, sep) < 0 THEN <<s>>
    ELSE <<Slice(s, 0, Index(s, sep))>>
         \o Split(SliceFrom(s, Index(s, sep) + 1), sep)

\* strings.ReplaceAll(s, old, "") for a one-character old
RECURSIVE Without(_, _)
Without(s, old) ==
    IF s = "" THEN ""
    ELSE (IF At(s, 0) = old THEN "" ELSE At(s, 0))
         \o Without(SliceFrom(s, 1), old)

\* the value of a string of decimal digits
RECURSIVE DecValue(_)
DecValue(s) ==
    IF s = "" THEN 0
    ELSE DecValue(Slice(s, 0, Len(s) - 1)) * 10 + Index(Digits, At(s, Len(s) - 1))

\* whether s is a non-empty string of decimal digits
IsDecimal(s) == s /= "" /\ \A i \in 0..(Len(s) - 1) : IsDigit(At(s, i))

\* strconv.ParseUint(s, 10, 32) of a numeral of at most nine digits; a
\* longer one is out of the range of the inputs enumerated
ParseUint(s) ==
    IF IsDecimal(s) /\ Len(s) <= 9 THEN [ok |-> TRUE, n |-> DecValue(s)]
    ELSE [ok |-> FALSE, n |-> 0]

\* one field of a dotted-decimal address: up to three digits, no leading
\* zero, at most 255
IsOctet(f) ==
    /\ IsDecimal(f)
    /\ Len(f) <= 3
    /\ (Len(f) > 1 => At(f, 0) /= "0")
    /\ DecValue(f) <= 255

\* net.ParseIP followed by To4: the 32-bit number of a dotted-decimal
\* address, "v6" for a literal of hexadecimal digits and colons, "nil"
NetParseIP(s) ==
    With(Split(s, "."), LAMBDA f :
    IF Len(f) = 4 /\ \A i \in 1..4 : IsOctet(f[i])
    THEN [kind |-> "v4",
          n |-> ((DecValue(f[1]) * 256 + DecValue(f[2])) * 256
                 + DecValue(f[3])) * 256 + DecValue(f[4])]
    ELSE IF Contains(s, ":")
            /\ \A i \in 0..(Len(s) - 1) : IsHex(At(s, i)) \/ At(s, i) = ":"
    THEN [kind |-> "v6", n |-> 0]
    ELSE [kind |-> "nil", n |-> 0])

\* parseIP: a numeric string, else a dotted-decimal address
parseIP(s) ==
    With(ParseUint(TrimSpace(s)), LAMBDA u :
    IF u.ok THEN u
    ELSE With(NetParseIP(TrimSpace(s)), LAMBDA ip :
         [ok |-> ip.kind = "v4", n |-> ip.n]))

\* the entries one line of the file adds: none for a blank line, a
\* comment, fewer than three fields or an address that does not parse
LineEntries(text) ==
    With(TrimSpace(text), LAMBDA line :
    IF line = "" \/ HasPrefix(line, "#") THEN <<>>
    ELSE With(Split(Without(line, "\""), ","), LAMBDA parts :
         IF Len(parts) < 3 THEN <<>>
         ELSE IF ~parseIP(parts[1]).ok \/ ~parseIP(parts[2]).ok THEN <<>>
         ELSE <<[Start |-> parseIP(parts[1]).n, End |-> parseIP(parts[2]).n,
                 CountryCode |-> TrimSpace(parts[3]),
                 CountryName |-> IF Len(parts) >= 4 THEN TrimSpace(parts[4])
                                 ELSE ""]>>))

\* the entries the scanning loop of LoadFile appends, in file order
RECURSIVE ScanLines(_)
ScanLines(lines) ==
    IF lines = <<>> THEN <<>>
    ELSE LineEntries(Head(lines)) \o ScanLines(Tail(lines))

\* sort.Slice by Start: any order of the entries with non-decreasing
\* Start (the sort is not stable)
SortedByStart(entries) ==
    {[i \in 1..Len(entries) |-> entries[p[i]]] :
        p \in {q \in [1..Len(entries) -> 1..Len(entries)] :
                 /\ \A i, j \in 1..Len(entries) : i /= j => q[i] /= q[j]
                 /\ \A i, j \in 1..Len(entries) :
                       i < j => entries[q[i]].Start <= entries[q[j]].Start}}

\* sort.Search(n, f) between i and j, f(h) being entries[h].End >= n
\* (indices from 0)
RECURSIVE Search(_, _, _, _)
Search(entries, n, i, j) ==
    IF i >= j THEN i
    ELSE IF ~(entries[(i + j) \div 2 + 1].End >= n)
    THEN Search(entries, n, (i + j) \div 2 + 1, j)
    ELSE Search(entries, n, i, (i + j) \div 2)

\* (*DB).Lookup on a loaded database
Lookup(entries, ipStr) ==
    With(NetParseIP(ipStr), LAMBDA ip :
    IF ip.kind = "nil" THEN <<"--", "Unknown">>
    ELSE IF ip.kind = "v6" THEN <<"--", "IPv6 not supported">>
    ELSE With(Search(entries, ip.n, 0, Len(entries)), LAMBDA idx :
         IF idx < Len(entries) /\ entries[idx + 1].Start <= ip.n
            /\ ip.n <= entries[idx + 1].End
         THEN <<entries[idx + 1].CountryCode, entries[idx + 1].CountryName>>
         ELSE <<"--", "Unknown">>))

\* lines of a database file: ranges that nest, overlap, share their start
\* or stand alone, in numeric and in dotted form, a comment, a short line
GeoLines ==
    {"1,9,AU,Australia", "3,5,US,United States", "5,20,DE", "1,2,NZ",
     " 0.0.0.30 , 0.0.0.40 ,\"FR\",France", "# comment", "bad line"}

\* addresses looked up
GeoIPs == {"0.0.0.4", "0.0.0.7", "0.0.0.35", "0.0.0.50", "not-an-ip", "::1"}

InitGeo ==
    /\ DispatchIdle
    /\ \E k \in 0..MaxLines : \E lines \in [1..k -> GeoLines] :
          call = [st |-> "called", fn |-> "LoadFile", lines |-> lines]

\* err := db.LoadFile(path), the file opening and scanning without error
LoadFile ==
    /\ call.st = "called"
    /\ call.fn = "LoadFile"
    /\ \E sorted \in SortedByStart(ScanLines(call.lines)) :
          call' = [st |-> "loaded", fn |-> call.fn, lines |-> call.lines,
                   entries |-> sorted]
    /\ UNCHANGED dispatchVars

\* cc, cn := db.Lookup(ipStr)
CallLookup ==
    /\ call.st = "loaded"
    /\ \E ipStr \in GeoIPs :
          call' = [st |-> "returned", fn |-> "Lookup", lines |-> call.lines,
                   entries |-> call.entries, ip |-> ipStr,
                   out |-> Lookup(call.entries, ipStr)]
    /\ UNCHANGED dispatchVars

NextGeo == LoadFile \/ CallLookup

SpecGeo == InitGeo /\ [][NextGeo]_vars

\* Lookup has returned
LookedUp == call.st = "returned" /\ call.fn = "Lookup"

\* the loaded ranges that contain the address looked up
Containing ==
    {e \in {call.entries[i] : i \in 1..Len(call.entries)} :
        /\ NetParseIP(call.ip).kind = "v4"
        /\ e.Start <= NetParseIP(call.ip).n
        /\ NetParseIP(call.ip).n <= e.End}

\* C29: after LoadFile, Lookup returns the country code and name of a
\* loaded range that contains the address whenever there is one, whatever
\* the order of the lines and whether or not ranges overlap or nest, and
\* the code "--" when no range contains it or it is no IPv4 address
C29_LookupFindsRange ==
    LookedUp =>
       /\ Containing /= {}
             => \E e \in Containing : call.out = <<e.CountryCode, e.CountryName>>
       /\ Containing = {} => call.out[1] = "--"

\* C28: every outcome Check returns has an empty Error when Alive and a
\* non-empty Error when not Alive, and has a non-zero Latency while not
\* Alive only when it is the forward failure of the SOCKS5 prober
C28_AliveXorError ==
    (Returned /\ call.fn = "Check") =>
       /\ call.out.res.Alive => call.out.res.Error = ""
       /\ ~call.out.res.Alive => call.out.res.Error /= ""
       /\ (~call.out.res.Alive /\ call.out.res.Latency /= 0)
             => /\ call.out.res.Protocol = ProtocolSOCKS5
                /\ HasPrefix(call.out.res.Error, "forward check: ")

\* C28 witness: Check returned the forward failure of a SOCKS5 proxy with
\* the latency of the TCP probe
C28_Witness ==
    /\ Returned
    /\ call.fn = "Check"
    /\ ~call.out.res.Alive
    /\ call.out.res.Latency > 0
    /\ HasPrefix(call.out.res.Error, "forward check: ")

-----------------------------------------------------------------------------
(* CheckMany / RunMany under the scheduling the Go runtime gives: a        *)
(* goroutine that can take its next step eventually takes it (a send or a  *)
(* receive that stays possible is eventually made), and every probe        *)
(* returns.                                                                *)

Fairness ==
    /\ WF_vars(Setup)
    /\ WF_vars(Spawn)
    /\ WF_vars(Receive)
    /\ WF_vars(Return)
    /\ \A i \in 1..MaxN :
          /\ WF_vars(i <= N /\ Acquire(i))
          /\ WF_vars(i <= N /\ Probe(i))
          /\ WF_vars(i <= N /\ Release(i))
          /\ WF_vars(i <= N /\ Signal(i))

\* the batches whose addresses are all the bare address
InitLive == Init /\ \A i \in 1..N : addresses[i] = "h:1"

SpecLive == InitLive /\ [][Next]_vars /\ Fairness

\* C27: every CheckMany / RunMany invocation returns after receiving all N
\* signals, for every N >= 0 and every limit; every task waiting at the
\* admission gate is eventually admitted; a task at its completion signal
\* can always send it
C27_Terminates ==
    /\ <>(mpc = "returned" /\ received = N /\ ret.returned)
    /\ \A i \in 1..MaxN :
          (i <= N /\ pc[i] = "acquire") ~> (i <= N /\ pc[i] = "probe")
    /\ [](\A i \in 1..N : pc[i] = "signal" => CanSend(done, doneCap))

\* C27 witness: a task waits at the admission gate while the limit is
\* reached
C27_Witness ==
    /\ \E i \in 1..N : pc[i] = "acquire"
    /\ sem = semCap
    /\ semCap >= 1

-----------------------------------------------------------------------------
(* cmd: the check and bench commands. runCheck / runBench collect the      *)
(* addresses, call CheckMany / RunMany (the dispatcher above) and write    *)
(* the results; call holds the command, its inputs and what it has done.   *)

\* the addresses collectAddresses keeps of a list of arguments
RECURSIVE KeptArgs(_)
KeptArgs(args) ==
    IF args = <<>> THEN <<>>
    ELSE (IF TrimSpace(Head(args)) /= "" THEN <<TrimSpace(Head(args))>>
          ELSE <<>>) \o KeptArgs(Tail(args))

\* the addresses collectAddresses keeps of the lines of standard input
RECURSIVE KeptLines(_)
KeptLines(lines) ==
    IF lines = <<>> THEN <<>>
    ELSE (IF TrimSpace(Head(lines)) /= ""
             /\ ~HasPrefix(TrimSpace(Head(lines)), "#")
          THEN <<TrimSpace(Head(lines))>> ELSE <<>>) \o KeptLines(Tail(lines))

\* collectAddresses: the arguments, then standard input unless a terminal
collectAddresses(args, stdin) ==
    KeptArgs(args) \o (IF stdin.tty THEN <<>> ELSE KeptLines(stdin.lines))

extractHost(address) ==
    With(TrimPrefix(TrimPrefix(TrimPrefix(TrimPrefix(address, "http://"),
                    "https://"), "socks5://"), "ss://"), LAMBDA a :
    With(IF LastIndex(a, "@") /= -1 THEN SliceFrom(a, LastIndex(a, "@") + 1)
         ELSE a, LAMBDA b :
    IF LastIndex(b, ":") /= -1 /\ ~Contains(Slice(b, 0, LastIndex(b, ":")), ":")
    THEN Slice(b, 0, LastIndex(b, ":"))
    ELSE b))

\* the lookups the geo loop of runCheck makes for the results from the
\* i-th on, and the labels it leaves in countries
RECURSIVE GeoLoop(_, _, _)
GeoLoop(elems, db, i) ==
    IF i > Len(elems) THEN [lookups |-> <<>>, countries |-> <<>>]
    ELSE With(extractHost(elems[i].Address), LAMBDA host :
         With(GeoLoop(elems, db, i + 1), LAMBDA rest :
         IF host = ""
         THEN [lookups |-> rest.lookups, countries |-> <<"">> \o rest.countries]
         ELSE [lookups |-> <<[op |-> "lookup", host |-> host]>> \o rest.lookups,
               countries |->
                  <<IF Lookup(db, host)[1] /= "--"
                    THEN Lookup(db, host)[1] \o " " \o Lookup(db, host)[2]
                    ELSE "">> \o rest.countries]))

\* AfterDispatch of a command that gives up when an address has failed
AfterDispatchStrict(fn, geo, db, elems) ==
    IF \E i \in 1..Len(elems) : "Alive" \in DOMAIN elems[i] /\ ~elems[i].Alive
    THEN <<>>
    ELSE <<[op |-> "write", rows |-> elems, countries |-> <<>>]>>

\* what the command does once the results are back: the geo lookups of
\* runCheck under --geo, then the write of every result to standard output
AfterDispatch(fn, geo, db, elems) ==
    IF fn = "runCheck" /\ geo
    THEN GeoLoop(elems, db, 1).lookups
         \o <<[op |-> "write", rows |-> elems,
               countries |-> GeoLoop(elems, db, 1).countries]>>
    ELSE <<[op |-> "write", rows |-> elems, countries |-> <<>>]>>

\* arguments and lines of standard input
CmdArgs  == {"http://h:1", " h:1 ", " "}
CmdLines == {"h:1", "# c"}

InitCmd ==
    /\ DispatchIdle
    /\ \E fn \in {"runCheck", "runBench"}, k \in 0..MaxArgs, c \in {0, 1},
          geo \in BOOLEAN,
          stdin \in {[tty |-> TRUE, lines |-> <<>>]}
                    \cup {[tty |-> FALSE, lines |-> l] :
                            l \in {<<>>} \cup {<<x>> : x \in CmdLines}} :
          \E args \in [1..k -> CmdArgs] :
             call = [st |-> "called", fn |-> fn, args |-> args, stdin |-> stdin,
                     concurrency |-> c, geo |-> geo,
                     db |-> ScanLines(<<"1,9,AU,Australia">>),
                     did |-> <<>>, err |-> NoErr]

\* runCheck / runBench up to the call of CheckMany / RunMany: an empty
\* address list is an error returned at once
CmdStart ==
    /\ call.st = "called"
    /\ call.fn \in {"runCheck", "runBench"}
    /\ IF Len(collectAddresses(call.args, call.stdin)) = 0
       THEN /\ call' = [call EXCEPT !.st = "returned",
                                    !.err = "no proxy addresses provided"]
            /\ UNCHANGED dispatchVars
       ELSE /\ call' = [call EXCEPT !.st = "dispatched"]
            /\ mode' = IF call.fn = "runCheck" THEN "check" ELSE "bench"
            /\ addresses' = collectAddresses(call.args, call.stdin)
            /\ given' = [Timeout |-> 10, TestURL |-> "", PayloadURL |-> "",
                         Samples |-> 1, Concurrency |-> call.concurrency]
            /\ opts' = given'
            /\ mpc' = "entry"
            /\ pc' = [i \in 1..Len(addresses') |-> "unborn"]
            /\ hist' = [i \in 1..Len(addresses') |->
                          [probes |-> 0, writes |-> 0, seq |-> 0,
                           produced |-> Nothing]]
            /\ UNCHANGED <<semCap, sem, doneCap, done, results, spawned,
                           received, ret>>

\* runCheck / runBench from the return of CheckMany / RunMany on
CmdFinish ==
    /\ call.st = "dispatched"
    /\ mpc = "returned"
    /\ call' = [call EXCEPT !.st = "returned",
                            !.did = AfterDispatch(call.fn, call.geo, call.db,
                                                  ret.elems)]
    /\ UNCHANGED dispatchVars

NextCmd == CmdStart \/ Next \/ CmdFinish

SpecCmd == InitCmd /\ [][NextCmd]_vars

\* the command has returned
CmdReturned == call.st = "returned" /\ call.fn \in {"runCheck", "runBench"}

\* C26: with an empty collected address list the command returns an error
\* and the dispatcher is never invoked (no probe, no geo lookup, no write);
\* with a non-empty list the command returns only after it has written all
\* the results, whatever the probes reported
C26_EmptyListOnlyAbort ==
    /\ (CmdReturned /\ Len(collectAddresses(call.args, call.stdin)) = 0)
          => /\ call.err /= NoErr
             /\ call.did = <<>>
             /\ mode = "none"
             /\ mpc = "none"
             /\ hist = <<>>
    /\ (CmdReturned /\ Len(collectAddresses(call.args, call.stdin)) > 0)
          => /\ call.err = NoErr
             /\ mpc = "returned"
             /\ \A i \in 1..N : hist[i].probes = 1
             /\ call.did /= <<>>
             /\ call.did[Len(call.did)].op = "write"
             /\ call.did[Len(call.did)].rows = ret.elems
             /\ Len(ret.elems) = Len(collectAddresses(call.args, call.stdin))
    /\ (call.fn \in {"runCheck", "runBench"} /\ call.st /= "returned")
          => call.did = <<>>

\* C26 witness: a command given only a blank argument and a comment line
\* on standard input has returned
C26_Witness ==
    /\ CmdReturned
    /\ call.args = <<" ">>
    /\ call.stdin = [tty |-> FALSE, lines |-> <<"# c">>]


====
